---- MODULE Spec2Model ----
(***************************************************************************)
(* A model of the asky conversation engine (src/src/asky/llm.py):          *)
(*   - ToolRegistry.dispatch and ConversationEngine.run (specification     *)
(*     Spec): one run of a freshly constructed engine against a            *)
(*     chat-completion endpoint whose responses follow the OpenAI schema   *)
(*     (tool calls carry a string id, a string name and a string           *)
(*     arguments field);                                                   *)
(*   - get_llm_msg, the model invocation with its retry loop               *)
(*     (specification SpecHttp);                                           *)
(*   - the session manager (src/src/asky/core/session_manager.py) over its *)
(*     repository and the shell lock file (specification SpecSession);     *)
(*   - the research tools (src/src/asky/research/tools.py) over the URL    *)
(*     cache, its background summarization tasks and the vector store      *)
(*     (specification SpecResearch).                                       *)
(* Text is modelled as a sequence of string tokens; the length of a text   *)
(* in characters is the sum of the lengths of its tokens.  Session names,   *)
(* session messages and summaries are strings.                             *)
(***************************************************************************)
EXTENDS Integers, Sequences, FiniteSets, TLC

VARIABLES
    \* ---- ConversationEngine / ToolRegistry ----
    pc,                      \* "idle" | "loop" | "dispatch" | "done"
    messages,                \* the list passed to run, mutated in place
    messages0,               \* the list as it was passed to run
    turn,                    \* run's local turn counter
    original_system_prompt,  \* run's local, captured before the loop
    final_answer,            \* self.final_answer
    calls,                   \* the calls extracted in the current turn
    ci,                      \* index in calls of the next call to dispatch
    executors,               \* ToolRegistry._executors (the registered names)
    last_response,           \* the last message get_llm_msg returned
    chat_count,              \* number of get_llm_msg invocations of the run
    responses,               \* number of those that returned a message
    dispatched,              \* ids of the calls handed to dispatch, in order
    last_dispatch,           \* the last dispatch: call, result, executor run?
    log,                     \* terminal lines the run logged
    returned,                \* the value run returned (when pc = "done")
    runs,                    \* number of run calls made on the engine
    \* ---- get_llm_msg ----
    hpc,                     \* "idle" | "try" | "returned" | "raised"
    attempt,                 \* the for loop's attempt (0-based)
    backoff,                 \* the local backoff, in seconds
    posts,                   \* number of requests.post calls made
    last_outcome,            \* what the last POST ended with
    last_wait,               \* the last time.sleep: source and seconds
    prev_backoff_wait,       \* the previous wait taken from backoff (0: none)
    slept_after_last,        \* a sleep happened after the last POST
    \* ---- SessionManager, its repository, the lock file ----
    sessions,                \* repository: session id -> row
    session_msgs,            \* repository: session id -> its messages
    next_session_id,         \* the id the next created session gets
    current_session,         \* self.current_session: a Session object or None
    lock_file,               \* the shell's lock file: exists, text
    strategy,                \* SESSION_COMPACTION_STRATEGY
    sm_last,                 \* the last call on the manager and its outcome
    compacted,               \* session id -> what its last compaction saw
    \* ---- research cache, its summarization tasks, the vector store ----
    url_cache,               \* cached url -> its cache row
    next_cache_id,           \* the id the next inserted row gets
    tasks,                   \* background summarization tasks, by number
    chunk_embedded,          \* cache ids that have chunk embeddings
    link_embedded,           \* cache ids that have link embeddings
    status_log,              \* cache id -> the statuses its row has held
    observed,                \* cache id -> the statuses readers reported
    r_last,                  \* the last research tool call and its result
    \* ---- functions applied on their own ----
    applied                  \* the last application: function, inputs, result

engineVars == <<pc, messages, messages0, turn, original_system_prompt,
                final_answer, calls, ci, executors, last_response, chat_count,
                responses,
                dispatched, last_dispatch, log, returned, runs>>
httpVars == <<hpc, attempt, backoff, posts, last_outcome, last_wait,
              prev_backoff_wait, slept_after_last>>
sessionVars == <<sessions, session_msgs, next_session_id, current_session,
                 lock_file, strategy, sm_last, compacted>>
researchVars == <<url_cache, next_cache_id, tasks, chunk_embedded, link_embedded,
                  status_log, observed, r_last>>
pureVars == <<applied>>
vars == <<engineVars, httpVars, sessionVars, researchVars, pureVars>>

(***************************************************************************)
(* Bounds of the model.                                                    *)
(***************************************************************************)
\* config general.max_turns (20 by default, read from the user's TOML)
MAX_TURNS == 2
\* the longest tool_calls list a response of the model carries
MaxCalls == 2
\* the most tool calls the model asks for over one run
MaxDispatches == 4

(***************************************************************************)
(* Text helpers.                                                           *)
(***************************************************************************)
RECURSIVE CharLen(_)
CharLen(text) ==
    IF text = <<>> THEN 0 ELSE Len(Head(text)) + CharLen(Tail(text))

(***************************************************************************)
(* Messages and tool calls.  A message is a record with the four fields of *)
(* the chat schema; an absent tool_calls is the empty list, an absent or   *)
(* null content the empty text, an absent tool_call_id the empty string.   *)
(***************************************************************************)
Msg(role, content, tool_calls, tool_call_id) ==
    [role |-> role, content |-> content, tool_calls |-> tool_calls,
     tool_call_id |-> tool_call_id]

\* The arguments field of a tool call: a string (shape "str", with its
\* text), or absent, JSON null, or an already-decoded object.
Str(text) == [shape |-> "str", text |-> text]
Call(id, name, arguments) ==
    [id |-> id, name |-> name, arguments |-> arguments]

\* json.loads on the argument texts of the model: the kind of value it
\* returns, or "JSONDecodeError".
json_loads(text) ==
    CASE text = "{}" -> "object"
      [] text = "{\"q\": \"x\"}" -> "object"
      [] text = "[1]" -> "array"
      [] text = "{\"content\": \"body\", \"links\": [\"l1\", \" \", \"l2\", \"l3\"]}"
            -> "object"
      [] text = "{\"error\": \"denied\"}" -> "object"
      [] OTHER -> "JSONDecodeError"

\* len(json.dumps(tool_calls)) for calls of the form
\* {"id": .., "function": {"name": .., "arguments": ..}}: 53 characters of
\* punctuation and keys per call, ", " between calls, "[" and "]" around;
\* every '"' inside the arguments text is escaped (one more character).
RECURSIVE JsonCallsLen(_)
JsonCallsLen(tc) ==
    IF tc = <<>> THEN 0
    ELSE LET c == Head(tc)
             esc == IF c.arguments.text = "{\"q\": \"x\"}" THEN 4 ELSE 0
         IN  53 + Len(c.id) + Len(c.name) + Len(c.arguments.text) + esc
             + (IF Tail(tc) = <<>> THEN 0 ELSE 2) + JsonCallsLen(Tail(tc))

RECURSIVE SumChars(_)
SumChars(msgs) ==
    IF msgs = <<>> THEN 0
    ELSE LET m == Head(msgs)
         IN  (IF m.content # <<>> THEN CharLen(m.content) ELSE 0)
             + (IF m.tool_calls # <<>> THEN 2 + JsonCallsLen(m.tool_calls)
                ELSE 0)
             + SumChars(Tail(msgs))

\* Naive token counting: chars / 4.
count_tokens(msgs) == SumChars(msgs) \div 4

(***************************************************************************)
(* ToolRegistry.dispatch.                                                  *)
(***************************************************************************)
\* The tools create_default_tool_registry registers (two of them).
DefaultTools == {"get_date_time", "web_search"}

ErrorObj(text) == [key |-> "error", value |-> text]
\* What an executor returns when it does not raise.
ExecutorResult(name) == [key |-> name, value |-> "ok"]
\* json.dumps of a one-key result object.
json_dumps(obj) == <<"{\"", obj.key, "\": \"", obj.value, "\"}">>

\* What a dispatch ends with: it returns a result object or raises; ran
\* says whether the executor was invoked, failed whether it raised.
Returned(result, ran, failed) ==
    [status |-> "returned", result |-> result, executor_ran |-> ran,
     executor_raised |-> failed]
Raised(exc, ran, failed) ==
    [status |-> "raised", result |-> ErrorObj(exc), executor_ran |-> ran,
     executor_raised |-> failed]

\* dispatch with the executor looked up before the arguments are parsed.
dispatch_lookup_first(reg, call, exec_raises) ==
    IF call.name \notin reg
    THEN Returned(ErrorObj("Unknown tool: " \o call.name), FALSE, FALSE)
    ELSE IF call.arguments.shape = "str" /\ call.arguments.text # ""
            /\ json_loads(call.arguments.text) = "JSONDecodeError"
    THEN Returned(ErrorObj("Invalid JSON arguments for tool: " \o call.name),
                  FALSE, FALSE)
    ELSE IF exec_raises
    THEN Returned(ErrorObj("Tool execution failed: " \o "boom"), TRUE, TRUE)
    ELSE Returned(ExecutorResult(call.name), TRUE, FALSE)

\* dispatch with the executor's exception left to propagate.
dispatch_propagates(reg, call, exec_raises) ==
    IF call.arguments.shape = "str" /\ call.arguments.text # ""
       /\ json_loads(call.arguments.text) = "JSONDecodeError"
    THEN Returned(ErrorObj("Invalid JSON arguments for tool: " \o call.name),
                  FALSE, FALSE)
    ELSE IF call.name \notin reg
    THEN Returned(ErrorObj("Unknown tool: " \o call.name), FALSE, FALSE)
    ELSE IF exec_raises THEN Raised("boom", TRUE, TRUE)
    ELSE Returned(ExecutorResult(call.name), TRUE, FALSE)

\* dispatch(call) on a registry with executors `reg`; exec_raises says
\* whether the executor, if it is run, raises (with message "boom").
dispatch(reg, call, exec_raises) ==
    LET name == call.name
        \* args_str = func_call.get("arguments", "{}")
        args_str == IF call.arguments.shape = "absent" THEN Str("{}")
                    ELSE call.arguments
        \* `if args_str`: None, "" and {} are falsy
        truthy == /\ args_str.shape # "null"
                  /\ ~(args_str.shape = "str" /\ args_str.text = "")
    IN  IF truthy /\ args_str.shape = "decoded"
        THEN \* json.loads of a non-string: TypeError, not caught
             Raised("TypeError", FALSE, FALSE)
        ELSE IF truthy /\ json_loads(args_str.text) = "JSONDecodeError"
        THEN Returned(ErrorObj("Invalid JSON arguments for tool: " \o name),
                      FALSE, FALSE)
        ELSE IF name \notin reg
        THEN Returned(ErrorObj("Unknown tool: " \o name), FALSE, FALSE)
        ELSE IF exec_raises
        THEN \* except Exception as e: the executor's exception is wrapped
             Returned(ErrorObj("Tool execution failed: " \o "boom"),
                      TRUE, TRUE)
        ELSE Returned(ExecutorResult(name), TRUE, FALSE)

(***************************************************************************)
(* Tool-call extraction.                                                   *)
(***************************************************************************)
NoCall == [name |-> "", arguments |-> Str("")]

\* re.search(r"to=functions\.([a-zA-Z0-9_]+)", text): a token
\* "to=functions." followed by the name token.  re.search(r"(\{.*\})", text,
\* re.S) is greedy: the group runs from the first "{" of the text to its
\* last "}"; in the texts of the model a "{" begins a token and a "}" ends
\* one.
BraceTexts == {"{}", "{\"q\": \"x\"}", "{bad}"}
opens(token) == Len(token) > 0 /\ SubSeq(token, 1, 1) = "{"
closes(token) == Len(token) > 0 /\ SubSeq(token, Len(token), Len(token)) = "}"
RECURSIVE concat(_)
concat(text) == IF text = <<>> THEN "" ELSE Head(text) \o concat(Tail(text))
NoGroup == [found |-> FALSE, text |-> ""]
brace_group(text) ==
    IF ~\E k \in 1..Len(text) : opens(text[k]) THEN NoGroup
    ELSE LET j == CHOOSE k \in 1..Len(text) :
                      /\ opens(text[k])
                      /\ \A l \in 1..(k - 1) : ~opens(text[l])
         IN  IF ~\E k \in j..Len(text) : closes(text[k]) THEN NoGroup
             ELSE LET e == CHOOSE k \in j..Len(text) :
                               /\ closes(text[k])
                               /\ \A l \in (k + 1)..Len(text) : ~closes(text[l])
                  IN  [found |-> TRUE, text |-> concat(SubSeq(text, j, e))]

parse_textual_tool_call(text) ==
    IF text = <<>> THEN NoCall
    ELSE IF ~\E i \in 1..(Len(text) - 1) : text[i] = "to=functions."
    THEN NoCall
    ELSE LET i == CHOOSE k \in 1..(Len(text) - 1) :
                      /\ text[k] = "to=functions."
                      /\ \A l \in 1..(k - 1) : text[l] # "to=functions."
             name == text[i + 1]
             j == brace_group(text)
         IN  IF ~j.found THEN NoCall
             ELSE IF json_loads(j.text) = "JSONDecodeError" THEN NoCall
             ELSE [name |-> name, arguments |-> Str(j.text)]

extract_calls_textual_first(msg, t) ==
    LET parsed == parse_textual_tool_call(msg.content)
    IN  IF parsed # NoCall
        THEN <<Call("textual_call_" \o ToString(t), parsed.name,
                    parsed.arguments)>>
        ELSE msg.tool_calls

extract_calls(msg, t) ==
    IF msg.tool_calls # <<>> THEN msg.tool_calls
    ELSE LET parsed == parse_textual_tool_call(msg.content)
         IN  IF parsed # NoCall
             THEN <<Call("textual_call_" \o ToString(t), parsed.name,
                         parsed.arguments)>>
             ELSE <<>>

\* asky.html.strip_think_tags: the text without its <think>...</think>
\* segments.
RECURSIVE strip_think_tags(_)
strip_think_tags(text) ==
    IF text = <<>> THEN <<>>
    ELSE IF Head(text) = "<think>"
              /\ \E k \in 2..Len(text) : text[k] = "</think>"
    THEN LET k == CHOOSE n \in 2..Len(text) :
                      /\ text[n] = "</think>"
                      /\ \A l \in 2..(n - 1) : text[l] # "</think>"
         IN  strip_think_tags(SubSeq(text, k + 1, Len(text)))
    ELSE <<Head(text)>> \o strip_think_tags(Tail(text))

(***************************************************************************)
(* The environment of one run: the message lists run is called with and    *)
(* the assistant messages the chat-completion endpoint returns.            *)
(***************************************************************************)
SystemPrompt == <<"S">>
InitialMessages ==
    { <<Msg("system", SystemPrompt, <<>>, ""), Msg("user", <<"hi">>, <<>>, "")>>,
      <<Msg("user", <<"hi">>, <<>>, "")>> }

\* Tool calls of the model: the name of a registered or of an unregistered
\* tool, with arguments that parse or that are malformed; the i-th call of
\* a response has the id c<i>.
CallKinds == {"get_date_time", "nope"} \X {"{}", "{"}
CallId(i) == "c" \o ToString(i)
ToolCallLists ==
    UNION { { [i \in 1..n |-> Call(CallId(i), k[i][1], Str(k[i][2]))] :
                k \in [1..n -> CallKinds] } :
            n \in 1..MaxCalls }

AnswerTexts == { <<"hello">>, <<"<think>", "plan", "</think>", "hello">> }
\* contents with the textual form of a call: one that parses, one whose
\* blob is no JSON, one with two objects, one without a blob
TextualCall == <<"call ", "to=functions.", "get_date_time", " ", "{}">>
TextualTexts ==
    { TextualCall,
      <<"call ", "to=functions.", "get_date_time", " ", "{bad}">>,
      <<"call ", "to=functions.", "get_date_time", " ", "{}", " then ", "{}">>,
      <<"call ", "to=functions.", "get_date_time">> }
\* a response that carries both the structured field and the textual form
BothForms == Msg("assistant", TextualCall, <<Call(CallId(1), "nope", Str("{}"))>>, "")
ModelResponses ==
    { Msg("assistant", c, <<>>, "") : c \in AnswerTexts \cup TextualTexts }
    \cup { Msg("assistant", <<>>, tc, "") : tc \in ToolCallLists }
    \cup { BothForms }

NoMsg == Msg("", <<>>, <<>>, "")
NoDispatch ==
    [call |-> Call("", "", Str("")), reg |-> {},
     outcome |-> Returned(ErrorObj(""), FALSE, FALSE)]

(***************************************************************************)
(* ConversationEngine.run.                                                 *)
(***************************************************************************)
\* context_size of the model configuration
context_size == 32000

\* The status suffix of turn t.  The percentage is the text of
\* total_tokens / context_size * 100 with two decimals; it is kept as the
\* two numbers it is computed from.
status_msg(t, msgs) ==
    << "\n\n[SYSTEM UPDATE]:\n- Context Used: ",
       ToString(count_tokens(msgs)) \o "/" \o ToString(context_size),
       "%- Turns Remaining: ", ToString(MAX_TURNS - t + 1),
       " (out of ", ToString(MAX_TURNS), ")\n",
       "Please manage your context usage efficiently." >>

WithStatus_cumulative(msgs, t, osp) ==
    IF msgs # <<>> /\ msgs[1].role = "system"
    THEN [msgs EXCEPT ![1].content = msgs[1].content \o status_msg(t, msgs)]
    ELSE msgs

\* messages[0]["content"] = original_system_prompt + status_msg
WithStatus(msgs, t, osp) ==
    IF msgs # <<>> /\ msgs[1].role = "system"
    THEN [msgs EXCEPT ![1].content = osp \o status_msg(t, msgs)]
    ELSE msgs

\* self.final_answer = strip_think_tags(msg.get("content", ""))
answer_unstripped(msg) == msg.content
answer_of(msg) == strip_think_tags(msg.content)

\* The tool message appended for a dispatched call.
tool_message_no_id(call, result) ==
    Msg("tool", json_dumps(result), <<>>, "")
tool_message(call, result) ==
    Msg("tool", json_dumps(result), <<>>, call.id)

\* while turn < MAX_TURNS
loop_off_by_one(t) == t <= MAX_TURNS
loop_condition(t) == t < MAX_TURNS

\* The branch `if not calls` keeps the answer and leaves the loop; it
\* appends nothing to messages.
answer_appended(sent, msg) == Append(sent, msg)
messages_after_answer(sent, msg) == sent

MaxTurnsLine == "Error: Max turns reached."
FailureLine == "Error: engine failure"

\* run(messages) is called: the locals are set up.
Run(msgs) ==
    /\ pc = "idle"
    /\ messages' = msgs
    /\ messages0' = msgs
    /\ turn' = 0
    /\ original_system_prompt' =
           IF msgs # <<>> /\ msgs[1].role = "system" THEN msgs[1].content
           ELSE <<>>
    /\ pc' = "loop"
    /\ runs' = runs + 1
    /\ UNCHANGED <<final_answer, calls, ci, executors, last_response,
                   chat_count, responses, dispatched, last_dispatch, log,
                   returned>>
    /\ UNCHANGED <<httpVars, sessionVars, researchVars, pureVars>>

\* One pass of the loop body up to the dispatch loop: get_llm_msg returns
\* msg.  Without calls the answer is kept, the loop is left, the check
\* after the loop runs and run returns.
LlmReturns(msg) ==
    /\ pc = "loop"
    /\ loop_condition(turn)
    /\ Len(dispatched) + Len(msg.tool_calls) <= MaxDispatches
    /\ LET t == turn + 1
           sent == WithStatus(messages, t, original_system_prompt)
           cs == extract_calls(msg, t)
       IN  /\ turn' = t
           /\ chat_count' = chat_count + 1
           /\ responses' = responses + 1
           /\ last_response' = msg
           /\ IF cs = <<>>
              THEN /\ final_answer' = answer_of(msg)
                   /\ messages' = messages_after_answer(sent, msg)
                   /\ log' = IF t >= MAX_TURNS THEN Append(log, MaxTurnsLine)
                             ELSE log
                   /\ returned' = final_answer'
                   /\ pc' = "done"
                   /\ UNCHANGED <<calls, ci>>
              ELSE /\ messages' = Append(sent, msg)
                   /\ calls' = cs
                   /\ ci' = 1
                   /\ pc' = "dispatch"
                   /\ UNCHANGED <<final_answer, log, returned>>
    /\ UNCHANGED <<runs, messages0, original_system_prompt, executors, dispatched,
                   last_dispatch>>
    /\ UNCHANGED <<httpVars, sessionVars, researchVars, pureVars>>

\* get_llm_msg raises and run has no handler: the exception leaves run.
LlmRaisesPropagates ==
    /\ pc = "loop"
    /\ loop_condition(turn)
    /\ turn' = turn + 1
    /\ messages' = WithStatus(messages, turn + 1, original_system_prompt)
    /\ chat_count' = chat_count + 1
    /\ pc' = "raised"
    /\ UNCHANGED <<runs, messages0, original_system_prompt, final_answer, calls, ci,
                   executors, last_response, responses, dispatched,
                   last_dispatch, log, returned>>
    /\ UNCHANGED <<httpVars, sessionVars, researchVars, pureVars>>

\* get_llm_msg raises: the handler of run logs the failure and run returns.
LlmRaises ==
    /\ pc = "loop"
    /\ loop_condition(turn)
    /\ turn' = turn + 1
    /\ messages' = WithStatus(messages, turn + 1, original_system_prompt)
    /\ chat_count' = chat_count + 1
    /\ log' = Append(log, FailureLine)
    /\ returned' = final_answer
    /\ pc' = "done"
    /\ UNCHANGED <<runs, messages0, original_system_prompt, final_answer, calls, ci,
                   executors, last_response, responses, dispatched,
                   last_dispatch>>
    /\ UNCHANGED <<httpVars, sessionVars, researchVars, pureVars>>

\* One pass of `for call in calls`: the call is dispatched and its result
\* appended as a tool message; after the last call the loop goes on.
DispatchCall(exec_raises) ==
    /\ pc = "dispatch"
    /\ LET call == calls[ci]
           r == dispatch(executors, call, exec_raises)
       IN  /\ dispatched' = Append(dispatched, call.id)
           /\ last_dispatch' = [call |-> call, reg |-> executors, outcome |-> r]
           /\ IF r.status = "raised"
              THEN /\ log' = Append(log, FailureLine)
                   /\ returned' = final_answer
                   /\ pc' = "done"
                   /\ UNCHANGED <<messages, ci>>
              ELSE /\ messages' = Append(messages, tool_message(call, r.result))
                   /\ IF ci = Len(calls)
                      THEN pc' = "loop" /\ ci' = ci
                      ELSE pc' = "dispatch" /\ ci' = ci + 1
                   /\ UNCHANGED <<log, returned>>
    /\ UNCHANGED <<runs, messages0, turn, original_system_prompt, final_answer,
                   calls, executors, last_response, chat_count, responses>>
    /\ UNCHANGED <<httpVars, sessionVars, researchVars, pureVars>>

\* Exhausted without the line of the check after the loop.
ExhaustedSilent ==
    /\ pc = "loop"
    /\ ~loop_condition(turn)
    /\ returned' = final_answer
    /\ pc' = "done"
    /\ UNCHANGED <<runs, messages, messages0, turn, original_system_prompt,
                   final_answer, calls, ci, executors, last_response,
                   chat_count, responses, dispatched, last_dispatch, log>>
    /\ UNCHANGED <<httpVars, sessionVars, researchVars, pureVars>>

\* The loop condition fails: the check after the loop logs the error and
\* run returns self.final_answer.
Exhausted ==
    /\ pc = "loop"
    /\ ~loop_condition(turn)
    /\ log' = Append(log, MaxTurnsLine)
    /\ returned' = final_answer
    /\ pc' = "done"
    /\ UNCHANGED <<runs, messages, messages0, turn, original_system_prompt,
                   final_answer, calls, ci, executors, last_response,
                   chat_count, responses, dispatched, last_dispatch>>
    /\ UNCHANGED <<httpVars, sessionVars, researchVars, pureVars>>

\* The state after ToolRegistry() with the default tools registered and
\* ConversationEngine(...) constructed.
EngineInit ==
    /\ pc = "idle"
    /\ messages = <<>>
    /\ messages0 = <<>>
    /\ turn = 0
    /\ original_system_prompt = <<>>
    /\ final_answer = <<>>
    /\ calls = <<>>
    /\ ci = 0
    /\ executors = DefaultTools
    /\ last_response = NoMsg
    /\ chat_count = 0
    /\ responses = 0
    /\ dispatched = <<>>
    /\ last_dispatch = NoDispatch
    /\ log = <<>>
    /\ returned = <<>>
    /\ runs = 0

(***************************************************************************)
(* The session manager's state before any call: an empty repository.       *)
(***************************************************************************)
\* An optional string: None, or the string v.
None == [some |-> FALSE, v |-> ""]
Some(v) == [some |-> TRUE, v |-> v]
\* self.current_session = None
NoSession ==
    [some |-> FALSE, id |-> 0, name |-> None, compacted_summary |-> None]
\* the lock file does not exist
NoLock == [exists |-> FALSE, text |-> ""]
NoManagerCall ==
    [op |-> "none", name |-> None, kind |-> "none", id |-> 0,
     candidates |-> {}, cleared |-> FALSE, tokens |-> 0, turn |-> <<>>,
     context |-> <<>>]

\* SessionManager(model_config) over an empty database, with the
\* configured compaction strategy st and the lock file lk
SessionStart(st, lk) ==
    /\ sessions = <<>>
    /\ session_msgs = <<>>
    /\ next_session_id = 1
    /\ current_session = NoSession
    /\ lock_file = lk
    /\ strategy = st
    /\ sm_last = NoManagerCall
    /\ compacted = <<>>
SessionIdle == SessionStart("summaries", NoLock)

\* no function has been applied
NoApplication == [fn |-> "none"]
PureIdle == applied = NoApplication

\* no research tool has been called
NoResearchCall ==
    [op |-> "none", results |-> <<>>, fetched |-> <<>>, cache_writes |-> <<>>,
     embedded |-> <<>>, raised |-> {}, tool_calls |-> <<>>, urls |-> <<>>]
\* an empty research cache and vector store, no summarization task
ResearchIdle ==
    /\ url_cache = <<>>
    /\ next_cache_id = 1
    /\ tasks = <<>>
    /\ chunk_embedded = {}
    /\ link_embedded = {}
    /\ status_log = <<>>
    /\ observed = <<>>
    /\ r_last = NoResearchCall

NoHeader == [present |-> FALSE, text |-> ""]
NoOutcome == [kind |-> "none", status |-> 0, retry_after |-> NoHeader]
NoWait == [source |-> "none", seconds |-> 0]

\* get_llm_msg has not been called
HttpIdle ==
    /\ hpc = "idle"
    /\ attempt = 0
    /\ backoff = 0
    /\ posts = 0
    /\ last_outcome = NoOutcome
    /\ last_wait = NoWait
    /\ prev_backoff_wait = 0
    /\ slept_after_last = FALSE

Init == EngineInit /\ HttpIdle /\ SessionIdle /\ ResearchIdle /\ PureIdle

Next ==
    \/ \E msgs \in InitialMessages : Run(msgs)
    \/ \E msg \in ModelResponses : LlmReturns(msg)
    \/ LlmRaises
    \/ \E exec_raises \in BOOLEAN : DispatchCall(exec_raises)
    \/ Exhausted

Spec == Init /\ [][Next]_vars

\* The run is a sequential program: it takes its next step whenever it has
\* one.
FairSpec == Spec /\ WF_vars(Next)

(***************************************************************************)
(* Properties of ConversationEngine.run.                                   *)
(***************************************************************************)
HasCalls(msg, t) == extract_calls(msg, t) # <<>>
CallMsgIndices ==
    { i \in DOMAIN messages :
        messages[i].role = "assistant" /\ messages[i].tool_calls # <<>> }
AssistantIndices == { i \in DOMAIN messages : messages[i].role = "assistant" }
\* the results of the assistant message at i are still being appended
Open(i) == pc = "dispatch" /\ \A j \in AssistantIndices : j <= i
ToolMsgs == SelectSeq(messages, LAMBDA m : m.role = "tool")
AllAnswered ==
    \A i \in CallMsgIndices :
        LET k == Len(messages[i].tool_calls)
        IN  /\ i + k <= Len(messages)
            /\ \A j \in 1..k :
                   /\ messages[i + j].role = "tool"
                   /\ messages[i + j].tool_call_id = messages[i].tool_calls[j].id

\* C1: in the message list run builds, every assistant message carrying k
\* tool calls is followed by exactly k tool messages, the j-th with the id of
\* the j-th call (while its calls are being dispatched: by the results
\* appended so far, as the end of the list); the calls are dispatched in the
\* order of the tool messages, and a chat-completion call is made only when
\* every call of the list has its result.
C1_ToolMessagesFollowCalls ==
    /\ [](/\ \A i \in CallMsgIndices :
               LET k == Len(messages[i].tool_calls)
                   n == IF Open(i) THEN ci - 1 ELSE k
               IN  /\ i + n <= Len(messages)
                   /\ \A j \in 1..n :
                          /\ messages[i + j].role = "tool"
                          /\ messages[i + j].tool_call_id
                                 = messages[i].tool_calls[j].id
                   /\ Open(i) => i + n = Len(messages)
                   /\ i + n < Len(messages) => messages[i + n + 1].role # "tool"
          /\ dispatched = [j \in 1..Len(ToolMsgs) |-> ToolMsgs[j].tool_call_id])
    /\ [][chat_count' # chat_count => AllAnswered]_vars

\* C1 (witness): the second chat-completion call has been made after an
\* assistant message with two tool calls and its two results.
C1_Witness ==
    /\ chat_count = 2
    /\ \E i \in CallMsgIndices :
           /\ Len(messages[i].tool_calls) = 2
           /\ i + 2 <= Len(messages)
           /\ messages[i + 2].tool_call_id = "c2"

ChatCall == LlmRaises \/ \E msg \in ModelResponses : LlmReturns(msg)

\* C3: a dispatch whose executor raises returns the object {error: "Tool
\* execution failed: ..."}; that object is appended as the tool message of
\* the call, the run neither logs nor returns, the next call of the turn is
\* up next and, after the last call, the loop head, where the next
\* chat-completion call is made while turns are left.
C3_ExecutorFailureContained ==
    /\ [][ (pc = "dispatch" /\ dispatched' # dispatched
            /\ last_dispatch'.outcome.executor_raised)
           => /\ last_dispatch'.outcome.status = "returned"
              /\ last_dispatch'.outcome.result
                     = ErrorObj("Tool execution failed: boom")
              /\ messages' = Append(messages,
                     Msg("tool",
                         json_dumps(ErrorObj("Tool execution failed: boom")),
                         <<>>, calls[ci].id))
              /\ log' = log
              /\ IF ci < Len(calls) THEN pc' = "dispatch" /\ ci' = ci + 1
                 ELSE pc' = "loop" ]_vars
    /\ [](pc = "loop" /\ turn < MAX_TURNS => ENABLED ChatCall)

\* C3 (witness): the executor of the first call of a turn raised, the second
\* call of the turn was dispatched and the next turn's chat-completion call
\* was made.
C3_Witness ==
    /\ chat_count = 2
    /\ Len(dispatched) >= 2
    /\ \E i \in CallMsgIndices :
           /\ i + 2 <= Len(messages)
           /\ Len(messages[i].tool_calls) = 2
           /\ messages[i + 1].content
                  = json_dumps(ErrorObj("Tool execution failed: boom"))
           /\ messages[i + 2].role = "tool"

\* C5: once a response without tool calls has come, the run is over: it
\* returned that response's content without its think segments, and no
\* chat-completion call and no dispatch follows; if it was the first
\* response, there was one chat call and no dispatch.
C5_EndsAtFirstToolFreeResponse ==
    /\ (responses > 0 /\ ~HasCalls(last_response, turn))
       => /\ pc = "done"
          /\ returned = strip_think_tags(last_response.content)
          /\ chat_count = responses
          /\ responses = 1 => chat_count = 1 /\ dispatched = <<>>
    /\ pc = "done" => ~ENABLED Next

\* C5 (witness): the first response was an answer with a think segment.
C5_Witness ==
    /\ pc = "done"
    /\ responses = 1
    /\ last_response.content = <<"<think>", "plan", "</think>", "hello">>
    /\ returned = <<"hello">>

SingleRoundTrip ==
    /\ pc = "done"
    /\ responses = 2
    /\ Len(dispatched) = 1
    /\ Len(messages) > Len(messages0)
    /\ Len(messages[Len(messages0) + 1].tool_calls) = 1
    /\ ~HasCalls(last_response, turn)

\* C7 (as claimed): after a single tool round trip the list has grown by
\* three messages, assistant, tool, assistant, and the answer is returned.
C7_GrowsByThree ==
    SingleRoundTrip
    => LET n == Len(messages0)
       IN  /\ Len(messages) = n + 3
           /\ messages[n + 1].role = "assistant"
           /\ messages[n + 2].role = "tool"
           /\ messages[n + 3].role = "assistant"
           /\ returned = strip_think_tags(last_response.content)

\* C7 (amended): after a single tool round trip the list has grown by two
\* messages, the assistant message with the call and the tool message of its
\* result; the answer is returned and is not appended.
C7_GrowsByTwo ==
    SingleRoundTrip
    => LET n == Len(messages0)
       IN  /\ Len(messages) = n + 2
           /\ messages[n + 1].role = "assistant"
           /\ messages[n + 2].role = "tool"
           /\ messages[n + 2].tool_call_id = messages[n + 1].tool_calls[1].id
           /\ \A i \in 1..n : messages[i].role = messages0[i].role
           /\ returned = strip_think_tags(last_response.content)

\* C7 (witness): a single tool round trip that started from the system and
\* the user message.
C7_Witness ==
    /\ SingleRoundTrip
    /\ Len(messages0) = 2
    /\ returned = <<"hello">>

(***************************************************************************)
(* ToolRegistry on its own (specification SpecDispatch): tools are         *)
(* registered on a new registry and calls of every shape are dispatched.   *)
(***************************************************************************)
\* the arguments field: a string (valid, malformed, empty, or JSON that is
\* not an object), absent, null, or a decoded (non-empty) object
ArgShapes ==
    { Str(t) : t \in {"{}", "{", "", "[1]"} }
    \cup { [shape |-> sh, text |-> ""] : sh \in {"absent", "null", "decoded"} }
DispatchCalls ==
    { Call("c1", nm, a) : nm \in {"get_date_time", "nope"}, a \in ArgShapes }

\* register(name, schema, executor)
Register(name) ==
    /\ pc = "registry"
    /\ executors' = executors \cup {name}
    /\ UNCHANGED <<runs, pc, messages, messages0, turn, original_system_prompt,
                   final_answer, calls, ci, last_response, chat_count,
                   responses, dispatched, last_dispatch, log, returned>>
    /\ UNCHANGED <<httpVars, sessionVars, researchVars, pureVars>>

\* dispatch(call), called directly
Dispatch(call, exec_raises) ==
    /\ pc = "registry"
    /\ Len(dispatched) < MaxDispatches
    /\ dispatched' = Append(dispatched, call.id)
    /\ last_dispatch' = [call |-> call, reg |-> executors,
                         outcome |-> dispatch(executors, call, exec_raises)]
    /\ UNCHANGED <<runs, pc, messages, messages0, turn, original_system_prompt,
                   final_answer, calls, ci, executors, last_response,
                   chat_count, responses, log, returned>>
    /\ UNCHANGED <<httpVars, sessionVars, researchVars, pureVars>>

\* ToolRegistry(): no tool is registered
RegistryInit ==
    /\ pc = "registry"
    /\ messages = <<>>
    /\ messages0 = <<>>
    /\ turn = 0
    /\ original_system_prompt = <<>>
    /\ final_answer = <<>>
    /\ calls = <<>>
    /\ ci = 0
    /\ executors = {}
    /\ last_response = NoMsg
    /\ chat_count = 0
    /\ responses = 0
    /\ dispatched = <<>>
    /\ last_dispatch = NoDispatch
    /\ log = <<>>
    /\ returned = <<>>
    /\ runs = 0
    /\ HttpIdle
    /\ SessionIdle
    /\ ResearchIdle
    /\ PureIdle

DispatchNext ==
    \/ \E name \in DefaultTools : Register(name)
    \/ \E call \in DispatchCalls, exec_raises \in BOOLEAN :
           Dispatch(call, exec_raises)

SpecDispatch == RegistryInit /\ [][DispatchNext]_vars

InvalidJSON(name) ==
    Returned(ErrorObj("Invalid JSON arguments for tool: " \o name), FALSE, FALSE)
UnknownTool(name) ==
    Returned(ErrorObj("Unknown tool: " \o name), FALSE, FALSE)

\* json.loads rejects the text (the empty string is never parsed: it
\* stands for no arguments)
Malformed(text) == text # "" /\ json_loads(text) = "JSONDecodeError"

\* C4: malformed model output comes back as an error object and is never
\* raised: a call whose arguments string is not valid JSON gets the Invalid
\* JSON error object, whether or not its tool is registered; a call with
\* arguments that parse (or are empty) naming an unregistered tool gets the
\* Unknown tool error object; in both cases no executor is invoked and the
\* registered tools are unchanged.
C4_MalformedOutputIsAnErrorObject ==
    /\ [](LET c == last_dispatch.call
              o == last_dispatch.outcome
          IN  (dispatched # <<>> /\ c.arguments.shape = "str")
              => /\ Malformed(c.arguments.text) => o = InvalidJSON(c.name)
                 /\ (~Malformed(c.arguments.text)
                     /\ c.name \notin last_dispatch.reg)
                        => o = UnknownTool(c.name))
    /\ [][dispatched' # dispatched => executors' = executors]_vars

\* C4 (witness): a call of a registered tool with malformed arguments was
\* answered with the Invalid JSON object, its executor not invoked.
C4_Witness ==
    /\ dispatched # <<>>
    /\ "get_date_time" \in last_dispatch.reg
    /\ last_dispatch.call = Call("c1", "get_date_time", Str("{"))
    /\ last_dispatch.outcome = InvalidJSON("get_date_time")
    /\ ~last_dispatch.outcome.executor_ran

(***************************************************************************)
(* get_llm_msg (specification SpecHttp): one model invocation, every POST  *)
(* of it answered by the endpoint in one of the ways PostOutcomes lists.   *)
(* Usage accounting is left out.                                           *)
(***************************************************************************)
max_retries == 10
initial_backoff == 2
max_backoff == 60

\* The Retry-After header of a 429 response: absent, or one of these texts
\* (whole and fractional seconds, the empty string, an HTTP date).
RetryAfterTexts == {"0", "3", "5.0", "2.5", "", "Wed, 21 Oct 2026 07:28:00 GMT"}
RetryAfterHeaders ==
    {NoHeader} \cup { [present |-> TRUE, text |-> t] : t \in RetryAfterTexts }

\* float(text), in tenths of a second; -1 stands for ValueError
float_tenths(text) ==
    CASE text = "0" -> 0
      [] text = "3" -> 30
      [] text = "5.0" -> 50
      [] text = "2.5" -> 25
      [] OTHER -> -1
\* int(float(text)): the fraction is cut off
int_float(text) == float_tenths(text) \div 10

Outcome(kind, status, header) ==
    [kind |-> kind, status |-> status, retry_after |-> header]
PostOutcomes ==
    {Outcome("ok", 200, NoHeader)}
    \cup { Outcome("http", 429, h) : h \in RetryAfterHeaders }
    \cup { Outcome("http", st, NoHeader) : st \in {400, 500, 503} }
    \cup { Outcome(k, 0, NoHeader) : k \in {"timeout", "connection"} }
    \cup {Outcome("bad_body", 200, NoHeader)}

\* `if attempt < max_retries - 1`
may_retry_also_last(a) == a < max_retries
may_retry(a) == a < max_retries - 1

\* backoff * 2, without the cap
next_backoff_uncapped(b) == b * 2
\* backoff = min(backoff * 2, max_backoff)
next_backoff(b) == IF b * 2 < max_backoff THEN b * 2 ELSE max_backoff

\* The wait of the 429 branch: [source, seconds, backoff afterwards].
wait_429(header, b) ==
    IF header.present /\ header.text # ""
    THEN IF float_tenths(header.text) >= 0
         THEN [source |-> "retry_after", seconds |-> int_float(header.text),
               backoff |-> b]
         ELSE [source |-> "backoff", seconds |-> b, backoff |-> next_backoff(b)]
    ELSE [source |-> "backoff", seconds |-> b, backoff |-> next_backoff(b)]

HttpUnchangedEngine == UNCHANGED <<engineVars, sessionVars, researchVars, pureVars>>

\* get_llm_msg is called
Invoke ==
    /\ hpc = "idle"
    /\ hpc' = "try"
    /\ attempt' = 0
    /\ backoff' = initial_backoff
    /\ UNCHANGED <<posts, last_outcome, last_wait, prev_backoff_wait,
                   slept_after_last>>
    /\ HttpUnchangedEngine

\* time.sleep(w.seconds); continue
SleepAndRetry(w) ==
    /\ last_wait' = [source |-> w.source, seconds |-> w.seconds]
    /\ prev_backoff_wait' =
           IF w.source = "backoff" THEN w.seconds ELSE prev_backoff_wait
    /\ backoff' = w.backoff
    /\ attempt' = attempt + 1
    /\ slept_after_last' = TRUE
    /\ hpc' = "try"

\* raise e
Surface ==
    /\ hpc' = "raised"
    /\ slept_after_last' = FALSE
    /\ UNCHANGED <<attempt, backoff, last_wait, prev_backoff_wait>>

\* the POST succeeds: response_message is returned
PostOk ==
    /\ hpc = "try" /\ attempt < max_retries
    /\ posts' = posts + 1
    /\ last_outcome' = Outcome("ok", 200, NoHeader)
    /\ hpc' = "returned"
    /\ slept_after_last' = FALSE
    /\ UNCHANGED <<attempt, backoff, last_wait, prev_backoff_wait>>
    /\ HttpUnchangedEngine

\* the response has no choices[0].message: the KeyError is not caught
PostBadBody ==
    /\ hpc = "try" /\ attempt < max_retries
    /\ posts' = posts + 1
    /\ last_outcome' = Outcome("bad_body", 200, NoHeader)
    /\ Surface
    /\ HttpUnchangedEngine

\* raise_for_status raises HTTPError
PostHttpError(o) ==
    /\ hpc = "try" /\ attempt < max_retries
    /\ o.kind = "http"
    /\ posts' = posts + 1
    /\ last_outcome' = o
    /\ IF o.status = 429 /\ may_retry(attempt)
       THEN SleepAndRetry(wait_429(o.retry_after, backoff))
       ELSE Surface
    /\ HttpUnchangedEngine

\* requests raises another RequestException (timeout, connection failure)
PostRequestError(o) ==
    /\ hpc = "try" /\ attempt < max_retries
    /\ o.kind \in {"timeout", "connection"}
    /\ posts' = posts + 1
    /\ last_outcome' = o
    /\ IF may_retry(attempt)
       THEN SleepAndRetry([source |-> "backoff", seconds |-> backoff,
                           backoff |-> next_backoff(backoff)])
       ELSE Surface
    /\ HttpUnchangedEngine

HttpNext ==
    \/ Invoke
    \/ PostOk
    \/ PostBadBody
    \/ \E o \in PostOutcomes : PostHttpError(o)
    \/ \E o \in PostOutcomes : PostRequestError(o)

SpecHttp == Init /\ [][HttpNext]_vars

(***************************************************************************)
(* Properties of get_llm_msg.                                              *)
(***************************************************************************)
\* an error the retry branches of get_llm_msg take up again
Retried(o) ==
    \/ o.kind \in {"timeout", "connection"}
    \/ o.kind = "http" /\ o.status = 429

\* C8: one invocation makes at most 10 POSTs; a POST that succeeds returns
\* the message and no POST follows; after a 10th failure with a retried
\* error the error is raised, with no sleep after that POST.
C8_AtMostTenAttempts ==
    /\ [](/\ posts <= max_retries
          /\ last_outcome.kind = "ok" => hpc = "returned"
          /\ (posts = max_retries /\ Retried(last_outcome))
                 => hpc = "raised" /\ ~slept_after_last
          /\ posts < max_retries /\ Retried(last_outcome) => hpc = "try")
    /\ [][(hpc \in {"returned", "raised"}) => (UNCHANGED posts)]_vars

\* C8 (witness): the 10th POST timed out and the error was raised.
C8_Witness ==
    /\ posts = max_retries
    /\ last_outcome.kind = "timeout"
    /\ hpc = "raised"

\* the transient network errors of the error taxonomy
Transient(o) ==
    \/ o.kind \in {"timeout", "connection"}
    \/ o.kind = "http" /\ (o.status = 429 \/ o.status >= 500)

\* C9: a transient network error (429, 5xx, timeout, connection failure) is
\* raised to the caller only after 10 attempts.
C9_TransientErrorsRetried ==
    (hpc = "raised" /\ Transient(last_outcome)) => posts = max_retries

\* C10: after a 429 with a numeric Retry-After the invocation has waited
\* the Retry-After value, not the backoff, and is about to retry.
C10_RetryAfterHonoured ==
    (/\ last_outcome.kind = "http" /\ last_outcome.status = 429
     /\ float_tenths(last_outcome.retry_after.text) >= 0
     /\ posts < max_retries)
    => /\ hpc = "try"
       /\ last_wait.source = "retry_after"
       /\ last_wait.seconds * 10 = float_tenths(last_outcome.retry_after.text)

\* C11: the waits taken from the backoff are 2, 4, 8, 16, 32, 60, 60, ...:
\* the first is 2 s, each later one is min(2 * the previous backoff wait,
\* 60), none exceeds 60 s, and a wait taken from Retry-After leaves the
\* backoff where it was.
C11_BackoffSchedule ==
    /\ [](last_wait.source = "backoff"
            => /\ last_wait.seconds <= 60
               /\ last_wait.seconds = prev_backoff_wait)
    /\ [][attempt' = attempt + 1
            => IF last_wait'.source = "backoff"
               THEN last_wait'.seconds =
                        IF prev_backoff_wait = 0 THEN 2
                        ELSE IF 2 * prev_backoff_wait < 60
                             THEN 2 * prev_backoff_wait ELSE 60
               ELSE /\ last_wait'.source = "retry_after"
                    /\ backoff' = backoff
                    /\ prev_backoff_wait' = prev_backoff_wait]_vars

\* C11 (witness): eight waits were taken and the backoff has reached its
\* cap: the last wait was a backoff wait of 60 s.
C11_Witness ==
    /\ last_wait = [source |-> "backoff", seconds |-> 60]
    /\ attempt = 8
    /\ backoff = 60

(***************************************************************************)
(* Failure of the model invocation inside ConversationEngine.run.          *)
(***************************************************************************)
\* a model invocation of the run ended by raising
InvocationFailed == chat_count > responses

\* C12: when the model invocation raises, run does not let the exception
\* out: it logs the failure and returns the answer accumulated so far, the
\* empty string since no tool-free answer was produced.
C12_InvocationFailureContained ==
    /\ pc # "raised"
    /\ InvocationFailed
         => /\ pc = "done"
            /\ log # <<>> /\ log[Len(log)] = FailureLine
            /\ returned = final_answer
            /\ returned = <<>>

\* C12 (witness): the invocation of the second turn failed, after a turn
\* of tool calls.
C12_Witness ==
    /\ InvocationFailed
    /\ responses = 1
    /\ pc = "done"
    /\ returned = <<>>

(***************************************************************************)
(* The session manager (specification SpecSession).  The repository        *)
(* (asky.storage) keeps the session rows and their messages; ids are       *)
(* handed out in increasing order and are not used again.                  *)
(***************************************************************************)
\* the most sessions ever created
MaxSessions == 2
\* the most save_turn calls
MaxSaves == 2

Digits == {"0", "1", "2", "3", "4", "5", "6", "7", "8", "9"}
Char(str, i) == SubSeq(str, i, i)
\* str.isdigit()
isdigit(str) == str # "" /\ \A i \in 1..Len(str) : Char(str, i) \in Digits
DigitValue(c) ==
    CASE c = "0" -> 0 [] c = "1" -> 1 [] c = "2" -> 2 [] c = "3" -> 3
      [] c = "4" -> 4 [] c = "5" -> 5 [] c = "6" -> 6 [] c = "7" -> 7
      [] c = "8" -> 8 [] c = "9" -> 9
\* int(str) of a string of digits
RECURSIVE int(_)
int(str) ==
    IF str = "" THEN 0
    ELSE int(SubSeq(str, 1, Len(str) - 1)) * 10 + DigitValue(Char(str, Len(str)))

\* ---- the repository ----
\* the Session object of row id
Session(sess, id) ==
    [some |-> TRUE, id |-> id, name |-> sess[id].name,
     compacted_summary |-> sess[id].compacted_summary]
get_session_by_id(sess, id) ==
    IF id \in DOMAIN sess THEN Session(sess, id) ELSE NoSession
\* the ids of the sessions named name
get_sessions_by_name(sess, name) ==
    {id \in DOMAIN sess : sess[id].name = Some(name)}
get_first_message_preview(msgs, id) ==
    IF msgs[id] = <<>> THEN "" ELSE msgs[id][1].content
\* the row create_session inserts
NewRow(name) == [name |-> name, compacted_summary |-> None]

\* ---- the lock file ----
\* get_shell_session_id: the integer in the lock file, or None
get_shell_session_id(lock) ==
    IF lock.exists /\ isdigit(lock.text)
    THEN [some |-> TRUE, id |-> int(lock.text)]
    ELSE [some |-> FALSE, id |-> 0]

(***************************************************************************)
(* Slugs and session names (src/src/asky/core/utils.py, session_manager.py) *)
(***************************************************************************)
\* STOPWORDS, the same set in both files
STOPWORDS ==
    {"a", "an", "the", "is", "are", "was", "were", "be", "been", "being",
      "have", "has", "had", "do", "does", "did", "will", "would", "could",
      "should", "may", "might", "must", "shall", "can", "need", "dare",
      "ought", "used", "to", "of", "in", "for", "on", "with", "at", "by",
      "from", "as", "into", "through", "during", "before", "after",
      "above", "below", "between", "under", "again", "further", "then",
      "once", "here", "there", "when", "where", "why", "how", "all",
      "each", "few", "more", "most", "other", "some", "such", "no", "nor",
      "not", "only", "own", "same", "so", "than", "too", "very", "just",
      "also", "now", "what", "which", "who", "whom", "this", "that",
      "these", "those", "am", "and", "but", "if", "or", "because", "while",
      "although", "i", "me", "my", "myself", "we", "our", "ours",
      "ourselves", "you", "your", "yours", "yourself", "yourselves", "he",
      "him", "his", "himself", "she", "her", "hers", "herself", "it",
      "its", "itself", "they", "them", "their", "theirs", "themselves",
      "about", "tell" }

Lowercase == "abcdefghijklmnopqrstuvwxyz"
Uppercase == "ABCDEFGHIJKLMNOPQRSTUVWXYZ"
IsLower(c) == \E i \in 1..26 : Char(Lowercase, i) = c
IsUpper(c) == \E i \in 1..26 : Char(Uppercase, i) = c
\* str.lower(), character by character (ASCII)
LowerChar(c) ==
    IF IsUpper(c)
    THEN Char(Lowercase, CHOOSE i \in 1..26 : Char(Uppercase, i) = c)
    ELSE c
RECURSIVE lower(_)
lower(text) ==
    IF text = "" THEN ""
    ELSE LowerChar(Char(text, 1)) \o lower(SubSeq(text, 2, Len(text)))

\* re.findall(r"[a-zA-Z]+", text): the maximal runs of letters, in order;
\* word is the run being read
RECURSIVE findall_letters(_, _)
findall_letters(text, word) ==
    IF text = "" THEN (IF word = "" THEN <<>> ELSE <<word>>)
    ELSE LET c == Char(text, 1)
             rest == SubSeq(text, 2, Len(text))
         IN  IF IsLower(c) \/ IsUpper(c)
             THEN findall_letters(rest, word \o c)
             ELSE (IF word = "" THEN <<>> ELSE <<word>>)
                  \o findall_letters(rest, "")

\* the key words with short words kept: [w for w in words if w not in
\* STOPWORDS]
RECURSIVE key_words_keep_short(_)
key_words_keep_short(words) ==
    IF words = <<>> THEN <<>>
    ELSE (IF Head(words) \notin STOPWORDS THEN <<Head(words)>> ELSE <<>>)
         \o key_words_keep_short(Tail(words))
\* [w for w in words if w not in STOPWORDS and len(w) > 2]
RECURSIVE key_words(_)
key_words(words) ==
    IF words = <<>> THEN <<>>
    ELSE (IF Head(words) \notin STOPWORDS /\ Len(Head(words)) > 2
          THEN <<Head(words)>> ELSE <<>>)
         \o key_words(Tail(words))

\* "_".join(words)
RECURSIVE join_underscore(_)
join_underscore(words) ==
    IF words = <<>> THEN ""
    ELSE IF Len(words) = 1 THEN words[1]
    ELSE words[1] \o "_" \o join_underscore(Tail(words))

\* list[:n], with Python's slice for a negative bound
slice_to(list, n) ==
    IF n >= 0 THEN (IF Len(list) <= n THEN list ELSE SubSeq(list, 1, n))
    ELSE (IF Len(list) + n <= 0 THEN <<>> ELSE SubSeq(list, 1, Len(list) + n))

\* re.sub(r"[^a-z0-9]", "", text)
RECURSIVE keep_alnum(_)
keep_alnum(text) ==
    IF text = "" THEN ""
    ELSE LET c == Char(text, 1)
         IN  (IF IsLower(c) \/ c \in Digits THEN c ELSE "")
             \o keep_alnum(SubSeq(text, 2, Len(text)))

\* text.lower()[:20]
slug_fallback_chars == 20

\* the key words of a text
text_key_words(text) == key_words(findall_letters(lower(text), ""))

\* the fallback of generate_slug being "session" every time
slug_fallback_session(text) == "session"
\* the fallback of generate_slug: what is left of the first 20 characters
slug_fallback(text) ==
    LET safe_fallback ==
            keep_alnum(IF Len(text) <= slug_fallback_chars
                       THEN lower(text)
                       ELSE SubSeq(lower(text), 1, slug_fallback_chars))
    IN  IF safe_fallback # "" THEN safe_fallback ELSE "session"

\* generate_slug(text, max_words)
generate_slug(text, max_words) ==
    IF text = "" THEN "untitled"
    ELSE LET selected == slice_to(text_key_words(text), max_words)
         IN  IF selected = <<>> THEN slug_fallback(text)
             ELSE join_underscore(selected)

\* generate_session_name(query), max_words = 2
session_name_words == 2
generate_session_name(query) ==
    LET selected == slice_to(text_key_words(query), session_name_words)
    IN  IF selected = <<>> THEN "session" ELSE join_underscore(selected)

\* ---- start_or_resume ----
\* What a start_or_resume call does: resume session id, create a session
\* named name, or raise DuplicateSessionError with the candidates; clear
\* says whether clear_shell_session was called on the way.
Resume(id) ==
    [kind |-> "resume", id |-> id, name |-> None, candidates |-> {},
     clear |-> FALSE]
Create(name, clear) ==
    [kind |-> "create", id |-> 0, name |-> name, candidates |-> {},
     clear |-> clear]
RaiseDuplicate(cands) ==
    [kind |-> "raise", id |-> 0, name |-> None, candidates |-> cands,
     clear |-> FALSE]

\* the id an explicit name denotes when that session exists, else 0:
\* digits, or S/s followed by digits
explicit_id_digits_only(sess, n) ==
    IF isdigit(n) /\ int(n) \in DOMAIN sess THEN int(n) ELSE 0
explicit_id(sess, n) ==
    IF isdigit(n) /\ int(n) \in DOMAIN sess THEN int(n)
    ELSE IF /\ Char(n, 1) \in {"s", "S"}
            /\ isdigit(SubSeq(n, 2, Len(n)))
            /\ int(SubSeq(n, 2, Len(n))) \in DOMAIN sess
         THEN int(SubSeq(n, 2, Len(n)))
         ELSE 0

\* "Look up by name" with several matches resuming one of them
by_name_first_match(sess, msgs, n) ==
    LET matching == get_sessions_by_name(sess, n)
    IN  IF matching # {}
        THEN Resume(CHOOSE id \in matching : \A o \in matching : id <= o)
        ELSE Create(Some(n), FALSE)
\* "Look up by name" without the look-up
by_name_always_creates(sess, msgs, n) == Create(Some(n), FALSE)
\* "Look up by name": one match is resumed, several raise, none creates
by_name(sess, msgs, n) ==
    LET matching == get_sessions_by_name(sess, n)
    IN  IF Cardinality(matching) = 1
        THEN Resume(CHOOSE id \in matching : TRUE)
        ELSE IF Cardinality(matching) > 1
        THEN RaiseDuplicate({ <<id, sess[id].name,
                                get_first_message_preview(msgs, id)>> :
                              id \in matching })
        ELSE Create(Some(n), FALSE)

\* a numeric name whose id is unknown: `pass`, on to the look-up by name
unknown_id(sess, msgs, n) == by_name(sess, msgs, n)

\* the name of an auto-named session
auto_name(query) ==
    IF query.some /\ query.v # "" THEN Some(generate_session_name(query.v))
    ELSE None

\* no name, with a stale lock file left in place
from_lock_keeps_file(sess, lock, query) ==
    LET shell == get_shell_session_id(lock)
    IN  IF shell.some /\ shell.id # 0 /\ shell.id \in DOMAIN sess
        THEN Resume(shell.id)
        ELSE Create(auto_name(query), FALSE)
\* no name: the lock file's session when it exists; else the lock file is
\* cleared when it held an id, and a session is created
from_lock(sess, lock, query) ==
    LET shell == get_shell_session_id(lock)
    IN  IF shell.some /\ shell.id # 0
        THEN IF shell.id \in DOMAIN sess THEN Resume(shell.id)
             ELSE Create(auto_name(query), TRUE)
        ELSE Create(auto_name(query), FALSE)

start_or_resume(sess, msgs, lock, session_name, query) ==
    LET n == session_name.v
    IN  IF session_name.some /\ n # ""
        THEN IF explicit_id(sess, n) # 0 THEN Resume(explicit_id(sess, n))
             ELSE IF isdigit(n) THEN unknown_id(sess, msgs, n)
             ELSE by_name(sess, msgs, n)
        ELSE from_lock(sess, lock, query)

\* ---- context assembly and compaction ----
\* model_config["context_size"] of the manager
SessionContextSize == 121
\* SESSION_COMPACTION_THRESHOLD, in percent
CompactionThreshold == 50
\* the length of the long query of the model
LongLen == 240
\* `msg.content[:100]` of _compact_with_summaries
fallback_chars == 100

RECURSIVE Rep(_, _)
Rep(ch, n) ==
    IF n = 0 THEN ""
    ELSE IF n % 2 = 0 THEN LET half == Rep(ch, n \div 2) IN half \o half
    ELSE ch \o Rep(ch, n - 1)

SessionMessage(role, content, summary, tokens) ==
    [role |-> role, content |-> content, summary |-> summary,
     tokens |-> tokens]
ContextMessage(role, content) == [role |-> role, content |-> content]

\* count_tokens over messages that carry role and content only
RECURSIVE ContentChars(_)
ContentChars(msgs) ==
    IF msgs = <<>> THEN 0 ELSE Len(Head(msgs).content) + ContentChars(Tail(msgs))
context_tokens(msgs) == ContentChars(msgs) \div 4

\* repo.get_session_messages
get_session_messages(msgs, id) == IF id \in DOMAIN msgs THEN msgs[id] ELSE <<>>

SummaryPair(summary) ==
    << ContextMessage("user", "Previous conversation summary:\n" \o summary),
       ContextMessage("assistant",
                      "I understand the context. How can I help further?") >>

\* build_context_messages with the summary pair after the stored messages
build_context_messages_summary_last(cs, msgs) ==
    IF ~cs.some THEN <<>>
    ELSE [i \in 1..Len(get_session_messages(msgs, cs.id)) |->
               ContextMessage(get_session_messages(msgs, cs.id)[i].role,
                              get_session_messages(msgs, cs.id)[i].content)]
         \o (IF cs.compacted_summary.some /\ cs.compacted_summary.v # ""
             THEN SummaryPair(cs.compacted_summary.v) ELSE <<>>)
\* build_context_messages, from the manager's Session object cs
build_context_messages(cs, msgs) ==
    IF ~cs.some THEN <<>>
    ELSE (IF cs.compacted_summary.some /\ cs.compacted_summary.v # ""
          THEN SummaryPair(cs.compacted_summary.v) ELSE <<>>)
         \o [i \in 1..Len(get_session_messages(msgs, cs.id)) |->
               ContextMessage(get_session_messages(msgs, cs.id)[i].role,
                              get_session_messages(msgs, cs.id)[i].content)]

\* int(self.context_size * (SESSION_COMPACTION_THRESHOLD / 100)): the
\* product is truncated to an integer (for the sizes of the model the
\* floating-point product has the integer part of the exact one)
threshold_tokens == (SessionContextSize * CompactionThreshold) \div 100

\* the comparison of check_and_compact, were the boundary not to trigger
reaches_threshold_strictly(tokens) == tokens > threshold_tokens
\* if current_token_count >= threshold_tokens
reaches_threshold(tokens) == tokens >= threshold_tokens

capitalize(role) ==
    CASE role = "user" -> "User" [] role = "assistant" -> "Assistant"
      [] OTHER -> role

\* one entry of summary_parts
summary_part(msg) ==
    IF msg.summary # ""
    THEN capitalize(msg.role) \o ": " \o msg.summary
    ELSE capitalize(msg.role) \o ": "
         \o SubSeq(msg.content, 1,
                   IF Len(msg.content) < fallback_chars THEN Len(msg.content)
                   ELSE fallback_chars)
         \o "..."

\* "\n".join(summary_parts)
RECURSIVE join_parts(_)
join_parts(msgs) ==
    IF msgs = <<>> THEN ""
    ELSE IF Len(msgs) = 1 THEN summary_part(msgs[1])
    ELSE summary_part(msgs[1]) \o "\n" \o join_parts(Tail(msgs))

\* what the summarization service returns to _compact_with_llm
SummarizerOutputs == {"The user greeted; the assistant replied."}

\* the content _perform_compaction stores
compacted_content(st, msgs, id, llm_out) ==
    IF st = "llm_summary" THEN llm_out
    ELSE join_parts(get_session_messages(msgs, id))

\* repo.compact_session: the row's compacted_summary is set
compact_session(sess, id, content) ==
    IF id \in DOMAIN sess
    THEN [sess EXCEPT ![id].compacted_summary = Some(content)]
    ELSE sess

\* the last step of a compaction clearing a summary that is already there
store_compaction_resets(sess, id, content) ==
    IF id \in DOMAIN sess /\ sess[id].compacted_summary.some
    THEN [sess EXCEPT ![id].compacted_summary = None]
    ELSE compact_session(sess, id, content)
\* the last step of a compaction: self.repo.compact_session(id, content)
store_compaction(sess, id, content) == compact_session(sess, id, content)

\* ---- the calls on the manager ----
ManagerCall(op, name, kind, id, candidates, tokens) ==
    [op |-> op, name |-> name, kind |-> kind, id |-> id,
     candidates |-> candidates, cleared |-> FALSE, tokens |-> tokens,
     turn |-> <<>>, context |-> <<>>]

\* the rows a start_or_resume call inserts, were it to create twice
created_rows_twice(o, nid) ==
    IF o.kind = "create"
    THEN (nid :> NewRow(o.name)) @@ ((nid + 1) :> NewRow(o.name))
    ELSE <<>>
\* the rows a start_or_resume call inserts: repo.create_session
created_rows(o, nid) ==
    IF o.kind = "create" THEN nid :> NewRow(o.name) ELSE <<>>

SessionNames == {"research", "2", "S1"}
SessionNameArgs == {None} \cup { Some(n) : n \in SessionNames }
QueryArgs == {None, Some("research")}

StartOrResume(session_name, query) ==
    LET o == start_or_resume(sessions, session_msgs, lock_file, session_name,
                             query)
        nid == next_session_id
        rows == created_rows(o, nid)
    IN  /\ o.kind = "create" => nid <= MaxSessions
        /\ sessions' = sessions @@ rows
        /\ session_msgs' = session_msgs @@ [i \in DOMAIN rows |-> <<>>]
        /\ next_session_id' = nid + Cardinality(DOMAIN rows)
        /\ current_session' =
               CASE o.kind = "resume" -> get_session_by_id(sessions, o.id)
                 [] o.kind = "create" -> get_session_by_id(sessions', nid)
                 [] OTHER -> current_session
        /\ lock_file' = IF o.clear THEN NoLock ELSE lock_file
        /\ sm_last' = [ManagerCall("start_or_resume", session_name, o.kind,
                                   IF o.kind = "create" THEN nid ELSE o.id,
                                   o.candidates, 0)
                        EXCEPT !.cleared = o.clear]
        /\ UNCHANGED <<strategy, compacted>>
        /\ UNCHANGED <<engineVars, httpVars, researchVars, pureVars>>

RECURSIVE StoredMessages(_)
StoredMessages(ids) ==
    IF ids = {} THEN 0
    ELSE LET id == CHOOSE i \in ids : TRUE
         IN  Len(session_msgs[id]) + StoredMessages(ids \ {id})

SavedQueries == {"hi", Rep("a", LongLen)}
SavedSummaries == {"", "greeting"}

\* save_turn storing the answer before the query
turn_messages_answer_first(query, answer, query_summary, answer_summary) ==
    << SessionMessage("assistant", answer, answer_summary,
                      context_tokens(<<ContextMessage("assistant", answer)>>)),
       SessionMessage("user", query, query_summary,
                      context_tokens(<<ContextMessage("user", query)>>)) >>
\* the two repo.save_message calls of save_turn, in their order
turn_messages(query, answer, query_summary, answer_summary) ==
    << SessionMessage("user", query, query_summary,
                      context_tokens(<<ContextMessage("user", query)>>)),
       SessionMessage("assistant", answer, answer_summary,
                      context_tokens(<<ContextMessage("assistant", answer)>>)) >>

SaveTurn(query, answer, query_summary, answer_summary) ==
    /\ StoredMessages(DOMAIN session_msgs) < 2 * MaxSaves
    /\ IF ~current_session.some
       THEN /\ sm_last' =
                   [ManagerCall("save_turn", None, "skipped", 0, {}, 0)
                        EXCEPT !.turn = <<query, answer>>]
            /\ UNCHANGED session_msgs
       ELSE LET id == current_session.id
            IN  /\ session_msgs' =
                       [session_msgs EXCEPT ![id] =
                            @ \o turn_messages(query, answer, query_summary,
                                               answer_summary)]
                /\ sm_last' =
                       [ManagerCall("save_turn", None, "stored", id, {}, 0)
                            EXCEPT !.turn = <<query, answer>>]
    /\ UNCHANGED <<sessions, next_session_id, current_session, lock_file,
                   strategy, compacted>>
    /\ UNCHANGED <<engineVars, httpVars, researchVars, pureVars>>

BuildContextMessages ==
    /\ sm_last' = [ManagerCall("build_context_messages", None, "returned",
                               current_session.id, {},
                               context_tokens(build_context_messages(
                                   current_session, session_msgs)))
                       EXCEPT !.context =
                           build_context_messages(current_session,
                                                  session_msgs)]
    /\ UNCHANGED <<sessions, session_msgs, next_session_id, current_session,
                   lock_file, strategy, compacted>>
    /\ UNCHANGED <<engineVars, httpVars, researchVars, pureVars>>

\* check_and_compact, _perform_compaction included; llm_out is what the
\* summarization service returns under the llm_summary strategy
CheckAndCompact(llm_out) ==
    LET id == current_session.id
        tokens == context_tokens(build_context_messages(current_session,
                                                        session_msgs))
        content == compacted_content(strategy, session_msgs, id, llm_out)
    IN  /\ IF current_session.some /\ reaches_threshold(tokens)
           THEN /\ sessions' = store_compaction(sessions, id, content)
                /\ compacted' =
                       (id :> [tokens_before |-> tokens,
                               stored |-> Len(session_msgs[id]),
                               times |-> IF id \in DOMAIN compacted
                                         THEN "again"
                                         ELSE "once"])
                       @@ compacted
                /\ sm_last' = ManagerCall("check_and_compact", None, "true",
                                          id, {}, tokens)
           ELSE /\ sm_last' = ManagerCall("check_and_compact", None, "false",
                                          id, {}, tokens)
                /\ UNCHANGED <<sessions, compacted>>
        /\ UNCHANGED <<session_msgs, next_session_id, current_session,
                       lock_file, strategy>>
        /\ UNCHANGED <<engineVars, httpVars, researchVars, pureVars>>

\* the CLI attaches the shell to the current session
SetShellSessionId ==
    /\ current_session.some
    /\ lock_file' = [exists |-> TRUE, text |-> ToString(current_session.id)]
    /\ sm_last' = ManagerCall("set_shell_session_id", None, "none",
                              current_session.id, {}, 0)
    /\ UNCHANGED <<sessions, session_msgs, next_session_id, current_session,
                   strategy, compacted>>
    /\ UNCHANGED <<engineVars, httpVars, researchVars, pureVars>>

\* the CLI detaches the shell
ClearShellSession ==
    /\ lock_file' = NoLock
    /\ sm_last' = ManagerCall("clear_shell_session", None, "none", 0, {}, 0)
    /\ UNCHANGED <<sessions, session_msgs, next_session_id, current_session,
                   strategy, compacted>>
    /\ UNCHANGED <<engineVars, httpVars, researchVars, pureVars>>

\* what the lock file may hold when the manager is constructed: nothing,
\* the id of a session of an earlier database, text that is no number
InitialLocks ==
    {NoLock} \cup { [exists |-> TRUE, text |-> t] : t \in {"2", "abc"} }
Strategies == {"summaries", "llm_summary"}

SessionInit ==
    /\ EngineInit
    /\ HttpIdle
    /\ \E st \in Strategies, lk \in InitialLocks : SessionStart(st, lk)
    /\ ResearchIdle
    /\ PureIdle

SessionNext ==
    \/ \E n \in SessionNameArgs, q \in QueryArgs : StartOrResume(n, q)
    \/ \E q \in SavedQueries, sm \in SavedSummaries :
           SaveTurn(q, "ok", sm, sm)
    \/ BuildContextMessages
    \/ \E out \in SummarizerOutputs : CheckAndCompact(out)
    \/ SetShellSessionId
    \/ ClearShellSession

SpecSession == SessionInit /\ [][SessionNext]_vars

(***************************************************************************)
(* Properties of start_or_resume.  A step is a start_or_resume call when   *)
(* sm_last' says so; sessions, current_session and lock_file are the state *)
(* before the call, their primed versions the state after it.              *)
(***************************************************************************)
StartCall == sm_last'.op = "start_or_resume"
\* the name argument of the call, "" when there is none
CallName == sm_last'.name.v
Named == sm_last'.name.some
Ids(sess) == DOMAIN sess
NothingCreated == sessions' = sessions /\ session_msgs' = session_msgs
\* the call created exactly one session, named name, and it is current
CreatedOne(name) ==
    /\ sm_last'.kind = "create"
    /\ sm_last'.id \notin Ids(sessions)
    /\ Ids(sessions') = Ids(sessions) \cup {sm_last'.id}
    /\ \A id \in Ids(sessions) : sessions'[id] = sessions[id]
    /\ sessions'[sm_last'.id].name = name
    /\ current_session'.some /\ current_session'.id = sm_last'.id
\* the call resumed session id and created nothing
Resumed(id) ==
    /\ sm_last'.kind = "resume"
    /\ sm_last'.id = id
    /\ NothingCreated
    /\ current_session'.some /\ current_session'.id = id
\* the sessions whose name is the string n
NamedLike(n) == {id \in Ids(sessions) : sessions[id].name = Some(n)}
\* the id the string n spells: all digits, or S followed by digits; else 0
SpelledId(n) ==
    IF isdigit(n) THEN int(n)
    ELSE IF Char(n, 1) = "S" /\ isdigit(SubSeq(n, 2, Len(n)))
    THEN int(SubSeq(n, 2, Len(n)))
    ELSE 0

\* C13: start_or_resume with a name that more than one session carries
\* raises DuplicateSessionError with (id, name, first-message preview) of
\* every such session, creates nothing and leaves the current session as
\* it was.
C13_DuplicateNameRaises ==
    [][(StartCall /\ Named /\ Cardinality(NamedLike(CallName)) > 1)
         => /\ sm_last'.kind = "raise"
            /\ sm_last'.candidates =
                   { <<id, sessions[id].name,
                       IF session_msgs[id] = <<>> THEN ""
                       ELSE session_msgs[id][1].content>> :
                     id \in NamedLike(CallName) }
            /\ NothingCreated
            /\ current_session' = current_session]_vars

\* C13 (witness): the call raised with two candidates while a session was
\* current.
C13_Witness ==
    /\ sm_last.op = "start_or_resume"
    /\ sm_last.kind = "raise"
    /\ Cardinality(sm_last.candidates) = 2
    /\ current_session.some

\* C14: start_or_resume with a name that spells the id of an existing
\* session (digits, or S and digits) resumes that session, makes it
\* current and creates none, whatever the names of the sessions.
C14_ResumeById ==
    [][(StartCall /\ Named /\ SpelledId(CallName) \in Ids(sessions))
         => Resumed(SpelledId(CallName))]_vars

\* C14 (witness): "2" resumed session 2 while session 1 is named "2".
C14_Witness ==
    /\ sm_last.op = "start_or_resume"
    /\ sm_last.name = Some("2")
    /\ sm_last.kind = "resume"
    /\ sm_last.id = 2
    /\ 1 \in Ids(sessions) /\ sessions[1].name = Some("2")

\* C15: start_or_resume with a numeric name whose id matches
\* no session creates exactly one session with that name and makes it
\* current.
C15_UnknownIdCreates ==
    [][(StartCall /\ Named /\ isdigit(CallName)
        /\ int(CallName) \notin Ids(sessions))
         => CreatedOne(Some(CallName))]_vars

\* C16: start_or_resume with a name that is not an id resumes the one
\* session carrying it and creates none; when no session carries it, it
\* creates exactly one session with that name; the returned session is the
\* current one.
C16_ResumeOrCreateByName ==
    [][(StartCall /\ Named /\ CallName # "" /\ ~isdigit(CallName)
        /\ SpelledId(CallName) \notin Ids(sessions))
         => /\ NamedLike(CallName) = {} => CreatedOne(Some(CallName))
            /\ \A id \in Ids(sessions) :
                   NamedLike(CallName) = {id} => Resumed(id)]_vars

\* C16 (witness): "research" resumed the one session of that name while
\* another session exists.
C16_Witness ==
    /\ sm_last.op = "start_or_resume"
    /\ sm_last.name = Some("research")
    /\ sm_last.kind = "resume"
    /\ Cardinality(Ids(sessions)) = 2
    /\ current_session.id = sm_last.id
    /\ sessions[sm_last.id].name = Some("research")

\* C17: start_or_resume without a name resumes the session whose id the
\* lock file holds and creates nothing; when the lock file holds the id of
\* no session, the lock file is gone afterwards and a session was created.
C17_LockFile ==
    [][(StartCall /\ ~Named /\ lock_file.exists /\ isdigit(lock_file.text)
        /\ int(lock_file.text) >= 1)
         => IF int(lock_file.text) \in Ids(sessions)
            THEN Resumed(int(lock_file.text)) /\ lock_file' = lock_file
            ELSE /\ ~lock_file'.exists
                 /\ sm_last'.kind = "create"
                 /\ Cardinality(Ids(sessions') \ Ids(sessions)) = 1
                 /\ current_session'.id = sm_last'.id]_vars

\* C17 (witness): a call without a name found a stale lock file, cleared
\* it and created a session.
C17_Witness ==
    /\ sm_last.op = "start_or_resume"
    /\ ~sm_last.name.some
    /\ sm_last.cleared
    /\ sm_last.kind = "create"
    /\ ~lock_file.exists

\* C18: over start_or_resume, save_turn, build_context_messages and
\* check_and_compact the set of session ids only grows, and one
\* start_or_resume call creates at most one session.
C18_SessionsOnlyGrow ==
    [][/\ Ids(sessions) \subseteq Ids(sessions')
       /\ StartCall => Cardinality(Ids(sessions') \ Ids(sessions)) <= 1
       /\ ~StartCall => Ids(sessions') = Ids(sessions)]_vars

\* C18 (witness): two sessions exist after turns were saved and a
\* compaction ran.
C18_Witness ==
    /\ Cardinality(Ids(sessions)) = 2
    /\ compacted # <<>>
    /\ \E id \in Ids(sessions) : session_msgs[id] # <<>>

(***************************************************************************)
(* Properties of compaction.                                               *)
(***************************************************************************)
\* an optional text that is there and not empty
IsSet(text) == text.some /\ text.v # ""

\* C19: once a session has been compacted and no message has been stored
\* since, the token count of build_context_messages() for it is at most
\* the token count the compaction started from.
C19_CompactionShrinksContext ==
    \A id \in DOMAIN compacted :
        (/\ current_session.some
         /\ current_session.id = id
         /\ Len(session_msgs[id]) = compacted[id].stored)
        => context_tokens(build_context_messages(current_session,
                                                 session_msgs))
               <= compacted[id].tokens_before

StoredAs(m, role, content) ==
    /\ m.role = role
    /\ m.content = content
    /\ m.tokens = Len(content) \div 4

\* C21: a save_turn call with a current session appends exactly two
\* messages to that session and to no other: the user query, then the
\* assistant answer, each with its chars/4 token count; with no current
\* session it stores nothing; and no step ever reorders or drops what a
\* session already holds, so turns stay in call order.
C21_SaveTurnAppendsInOrder ==
    /\ [][sm_last'.op = "save_turn" =>
            IF current_session.some
            THEN LET id  == current_session.id
                     old == session_msgs[id]
                     new == session_msgs'[id]
                 IN  /\ Len(new) = Len(old) + 2
                     /\ SubSeq(new, 1, Len(old)) = old
                     /\ StoredAs(new[Len(old) + 1], "user", sm_last'.turn[1])
                     /\ StoredAs(new[Len(old) + 2], "assistant",
                                 sm_last'.turn[2])
                     /\ \A other \in DOMAIN session_msgs \ {id} :
                            session_msgs'[other] = session_msgs[other]
            ELSE session_msgs' = session_msgs]_vars
    /\ [][\A id \in DOMAIN session_msgs :
              /\ id \in DOMAIN session_msgs'
              /\ Len(session_msgs'[id]) >= Len(session_msgs[id])
              /\ SubSeq(session_msgs'[id], 1, Len(session_msgs[id]))
                     = session_msgs[id]]_vars

\* C21 (witness): two consecutive turns with different queries are stored
\* in one session, the long query of 60 tokens second.
C21_Witness ==
    /\ sm_last.op = "save_turn"
    /\ sm_last.kind = "stored"
    /\ \E id \in DOMAIN session_msgs :
           /\ Len(session_msgs[id]) = 4
           /\ session_msgs[id][1].content = "hi"
           /\ session_msgs[id][3].content = Rep("a", LongLen)
           /\ session_msgs[id][3].tokens = 60
           /\ session_msgs[id][4].role = "assistant"

(***************************************************************************)
(* The research tools (src/src/asky/research/tools.py).  The URL cache, its *)
(* background summarization tasks and the vector store are not part of the *)
(* sources at hand; they are modelled from the specification's cache       *)
(* contract.  A link is modelled by its href, a page by its content, its   *)
(* title and its links.                                                    *)
(***************************************************************************)
\* rows the cache ever inserts in a behaviour
MaxCacheRows == 2
\* background summarization tasks ever started in a behaviour
MaxTasks == 3
\* the length of the long page: just over the fallback preview
LongPage == 3001

\* content[:3000] of the embedding fallback
fallback_preview_chars == 3000
\* content[:2000] when no chunk is relevant
no_match_preview_chars == 2000
\* title = line[:200]
title_chars == 200
\* DEFAULT_ADAPTER_MAX_LINKS
DEFAULT_ADAPTER_MAX_LINKS == 50

\* _sanitize_url: url.replace("\\", "")
RECURSIVE _sanitize_url(_)
_sanitize_url(url) ==
    IF url = "" THEN ""
    ELSE IF Char(url, 1) = "\\" THEN _sanitize_url(SubSeq(url, 2, Len(url)))
    ELSE Char(url, 1) \o _sanitize_url(SubSeq(url, 2, Len(url)))

\* the first n characters of text: text[:n]
Prefix(text, n) == IF Len(text) <= n THEN text ELSE SubSeq(text, 1, n)
\* the first n elements of a list: list[:n], for n >= 0
Take(list, n) == IF Len(list) <= n THEN list ELSE SubSeq(list, 1, n)

\* the urls argument as a list: a string becomes a one-element list, an
\* absent argument the empty list
ArgList(urls_arg) ==
    CASE urls_arg.kind = "absent" -> <<>>
      [] urls_arg.kind = "text"   -> <<urls_arg.text>>
      [] urls_arg.kind = "list"   -> urls_arg.list

\* set([_sanitize_url(u) for u in urls if u])
DistinctUrls(list) ==
    { _sanitize_url(list[i]) : i \in {j \in 1..Len(list) : list[j] # ""} }

\* the orders in which a set may be iterated
Orders(S) ==
    { o \in [1..Cardinality(S) -> S] :
          \A i, j \in 1..Cardinality(S) : i # j => o[i] # o[j] }

(***************************************************************************)
(* The web, as _fetch_and_parse sees it.                                   *)
(***************************************************************************)
UrlA == "http://a"
UrlB == "http://b"
UrlDoc == "local://doc-1"
ResearchUrls == {UrlA, UrlB, UrlDoc}

\* the text and the links the HTML stripper extracts from a page
LongContent == Rep("b", LongPage)
PageContent(url) ==
    CASE url = UrlA -> "Alpha page"
      [] url = UrlB -> LongContent
      [] OTHER      -> ""
PageLinks(url) ==
    CASE url = UrlA -> <<"http://a/1", "http://a/2">>
      [] url = UrlB -> <<"http://b/1">>
      [] OTHER      -> <<>>

\* what a fetch may end with: the page, a page without text, a timeout,
\* another request error
FetchOutcomes == {"ok", "empty", "timeout", "request_error"}

\* _fetch_and_parse(url), the request ending with outcome
_fetch_and_parse(url, outcome) ==
    CASE outcome = "ok" ->
             [content |-> PageContent(url),
              title |-> IF PageContent(url) # ""
                        THEN Prefix(PageContent(url), title_chars)
                        ELSE url,
              links |-> PageLinks(url), error |-> None]
      [] outcome = "empty" ->
             [content |-> "", title |-> url, links |-> <<>>, error |-> None]
      [] outcome = "timeout" ->
             [content |-> "", title |-> "", links |-> <<>>,
              error |-> Some("Request timed out")]
      [] OTHER ->
             [content |-> "", title |-> "", links |-> <<>>,
              error |-> Some("request failed")]

(***************************************************************************)
(* The research cache: ResearchCache over the url_cache table.             *)
(***************************************************************************)
CacheRow(id, url, title, content, links) ==
    [id |-> id, url |-> url, title |-> title, content |-> content,
     links |-> links, summary |-> None, summary_status |-> "pending"]

\* cache.get_cached(url): the row, or no row
IsCached(cache, url) == url \in DOMAIN cache

SummarizationTask(cache_id) == [cache_id |-> cache_id, pc |-> "queued"]

\* the cache and its tasks, as the tools pass them along
CacheState(cache, nid, tk, slog) ==
    [cache |-> cache, next_id |-> nid, tasks |-> tk, status_log |-> slog]

\* cache.cache_url(...): a new row is inserted as pending, and a background
\* task is started for it when trigger_summarization is set.  A row already
\* there for url is kept with its id, summary and status: the call is a
\* no-op, or an update that starts one more task for the row (on_conflict).
cache_url(cs, url, content, title, links, trigger, on_conflict) ==
    IF url \in DOMAIN cs.cache
    THEN IF on_conflict = "update" /\ trigger
         THEN [cs EXCEPT !.tasks =
                   Append(@, SummarizationTask(cs.cache[url].id))]
         ELSE cs
    ELSE CacheState(
             (url :> CacheRow(cs.next_id, url, title, content, links))
                 @@ cs.cache,
             cs.next_id + 1,
             IF trigger
             THEN Append(cs.tasks, SummarizationTask(cs.next_id))
             ELSE cs.tasks,
             (cs.next_id :> <<"pending">>) @@ cs.status_log)

\* the url of the row with this id, "" when the row is gone
RowUrl(cache, id) ==
    IF \E u \in DOMAIN cache : cache[u].id = id
    THEN CHOOSE u \in DOMAIN cache : cache[u].id = id
    ELSE ""

\* UPDATE ... SET summary_status = to (and the summary) WHERE id = id,
\* whatever the row's status is
update_status_unconditionally(cs, id, from, to, summary) ==
    LET u == RowUrl(cs.cache, id)
    IN  IF u # ""
        THEN [cs EXCEPT !.cache[u].summary_status = to,
                        !.cache[u].summary = summary,
                        !.status_log[id] =
                            IF cs.cache[u].summary_status = to
                            THEN @ ELSE Append(@, to)]
        ELSE cs
\* the conditional write: UPDATE ... SET summary_status = to (and the
\* summary) WHERE id = id AND summary_status = from
update_status(cs, id, from, to, summary) ==
    LET u == RowUrl(cs.cache, id)
    IN  IF u # "" /\ cs.cache[u].summary_status = from
        THEN update_status_unconditionally(cs, id, from, to, summary)
        ELSE cs

\* the summary a task computes for a row
SummaryOf(row) == "Summary of " \o row.title

(***************************************************************************)
(* execute_extract_links                                                   *)
(***************************************************************************)
\* a result entry of a research tool, for one url
NoEntry ==
    [kind |-> "none", error |-> "", links |-> <<>>, ranked |-> FALSE,
     cached |-> FALSE, link_count |-> 0, title |-> "", text |-> "",
     status |-> "", fallback |-> FALSE]
ErrorEntry(text) == [NoEntry EXCEPT !.kind = "error", !.error = text]
LinksEntry(links, ranked, from_cache) ==
    [NoEntry EXCEPT !.kind = "links", !.links = links, !.ranked = ranked,
                    !.cached = from_cache, !.link_count = Len(links)]

NoUrlsError == "No URLs provided."
NoUrlsExtractError ==
    "No URLs provided. Please specify 'urls' or 'url' parameter."
NotCachedError == "Not cached. Use extract_links first to cache this URL."
EmptyContentError == "Cached content is empty."

Reverse(list) == [i \in 1..Len(list) |-> list[Len(list) + 1 - i]]

\* what rank_links_by_relevance may end with: it raises, it returns nothing,
\* or it returns the k best links (most relevant first; here: last first)
RankOutcomes == {"raises", "empty", "ranked"}

\* the links extract_links reports for one url, never more than max_links
\* when ranking fails
reported_links_unbounded(links, query, max_links, rank, k) ==
    IF query # "" /\ links # <<>> /\ rank = "ranked"
    THEN Take(Reverse(links), k)
    ELSE links
reported_links(links, query, max_links, rank, k) ==
    IF query # "" /\ links # <<>> /\ rank = "ranked"
    THEN Take(Reverse(links), k)
    ELSE Take(links, max_links)

\* one call in progress: the cache state, the vector store's link
\* embeddings, the results so far, the urls fetched and the urls written
\* to the cache, in order
ToolState(cs, le, results, fetched, cache_writes) ==
    [cs |-> cs, link_embedded |-> le, results |-> results,
     fetched |-> fetched, cache_writes |-> cache_writes]

\* _try_embed_links: embeddings are stored once per row; a failure of the
\* vector store is swallowed
_try_embed_links(le, cache_id, link_embed) ==
    IF link_embed = "ok" THEN le \cup {cache_id} ELSE le

\* one pass of the loop over urls, fetching also what the cache holds
extract_one_always_fetches(ts, url, fetch, link_embed, query, max_links, rank, k) ==
    LET parsed   == _fetch_and_parse(url, fetch)
        fetched  == Append(ts.fetched, url)
    IN  IF parsed.error.some
        THEN [ts EXCEPT !.results = (url :> ErrorEntry(parsed.error.v)) @@ @,
                        !.fetched = fetched]
        ELSE LET cs  == cache_url(ts.cs, url, parsed.content, parsed.title,
                                  parsed.links, TRUE, "noop")
                 cid == cs.cache[url].id
             IN  ToolState(cs,
                           _try_embed_links(ts.link_embedded, cid, link_embed),
                           (url :> LinksEntry(
                                       reported_links(parsed.links, query,
                                                      max_links, rank, k),
                                       query # "" /\ parsed.links # <<>>
                                           /\ rank = "ranked",
                                       FALSE)) @@ ts.results,
                           fetched,
                           Append(ts.cache_writes, url))
\* one pass of the loop over urls
extract_one(ts, url, fetch, link_embed, query, max_links, rank, k) ==
    IF IsCached(ts.cs.cache, url)
    THEN LET cached == ts.cs.cache[url]
         IN  [ts EXCEPT
                 !.link_embedded =
                     _try_embed_links(@, cached.id, link_embed),
                 !.results =
                     (url :> LinksEntry(
                                 reported_links(cached.links, query,
                                                max_links, rank, k),
                                 query # "" /\ cached.links # <<>>
                                     /\ rank = "ranked",
                                 TRUE)) @@ @]
    ELSE extract_one_always_fetches(ts, url, fetch, link_embed, query,
                                    max_links, rank, k)

\* the loop of execute_extract_links over the urls in iteration order
RECURSIVE extract_loop(_, _, _, _, _, _, _, _)
extract_loop(ts, order, fetch, link_embed, query, max_links, rank, k) ==
    IF order = <<>> THEN ts
    ELSE extract_loop(
             extract_one(ts, Head(order), fetch[Head(order)], link_embed,
                         query, max_links, rank, k),
             Tail(order), fetch, link_embed, query, max_links, rank, k)

\* the urls of a call: the urls argument, then the single url argument
CallUrls(urls_arg, url_arg) ==
    IF url_arg.some /\ url_arg.v # ""
    THEN Append(ArgList(urls_arg), url_arg.v)
    ELSE ArgList(urls_arg)

ResearchCall(op, ts) ==
    [op |-> op, results |-> ts.results, fetched |-> ts.fetched,
     cache_writes |-> ts.cache_writes, embedded |-> <<>>, raised |-> {},
     tool_calls |-> <<>>, urls |-> <<>>]
NoUrlsCall(op) ==
    [NoResearchCall EXCEPT !.op = op,
                           !.results = ("error" :> ErrorEntry(NoUrlsError))]

CurrentCache == CacheState(url_cache, next_cache_id, tasks, status_log)

\* the arguments the model may pass as urls, and as url
Absent == [kind |-> "absent", text |-> "", list |-> <<>>]
UrlText(t) == [kind |-> "text", text |-> t, list |-> <<>>]
UrlList(l) == [kind |-> "list", text |-> "", list |-> l]
UrlsArgs ==
    { Absent, UrlText(UrlB), UrlList(<<UrlA>>),
      UrlList(<<UrlA, "http:\\//a">>), UrlList(<<UrlA, UrlB>>),
      UrlList(<<"", UrlDoc>>) }
UrlArgs == {None, Some(UrlB)}
ResearchQueries == {"", "q"}
MaxLinksArgs == {1, 30}

\* what a request for url may end with: only http urls can be fetched
FetchOutcomesOf(url) ==
    IF url \in {UrlA, UrlB} THEN {"ok", "empty", "timeout"}
    ELSE {"request_error"}
\* one outcome, among those the web has, for every url that is not cached
\* (cached urls: not asked)
FetchChoices(urls, web) ==
    { f \in [urls -> FetchOutcomes] :
          \A u \in urls :
              IF IsCached(url_cache, u) THEN f[u] = "ok"
              ELSE IF u \in {UrlA, UrlB} THEN f[u] \in web
              ELSE f[u] \in FetchOutcomesOf(u) }
\* ranking is asked for only with a query
RankChoices(query) ==
    IF query = "" THEN { [rank |-> "empty", k |-> 1] }
    ELSE { [rank |-> "raises", k |-> 1], [rank |-> "empty", k |-> 1],
           [rank |-> "ranked", k |-> 1], [rank |-> "ranked", k |-> 2] }

\* a research tool call is the whole step: a step of a task or of the
\* cache leaves no call behind
extract_links_call(urls_arg, url_arg, query, max_links, link_embed, web, r) ==
    LET urls == DistinctUrls(CallUrls(urls_arg, url_arg))
    IN  /\ IF urls = {}
           THEN /\ r_last' = [NoUrlsCall("extract_links") EXCEPT
                                 !.results =
                                     ("error" :> ErrorEntry(NoUrlsExtractError))]
                /\ UNCHANGED <<url_cache, next_cache_id, tasks, status_log,
                               link_embedded>>
           ELSE \E order \in Orders(urls), fetch \in FetchChoices(urls, web) :
                    LET ts == extract_loop(
                                  ToolState(CurrentCache, link_embedded,
                                            <<>>, <<>>, <<>>),
                                  order, fetch, link_embed, query, max_links,
                                  r.rank,
                                  IF r.k <= max_links THEN r.k ELSE max_links)
                    IN  /\ ts.cs.next_id <= MaxCacheRows + 1
                        /\ Len(ts.cs.tasks) <= MaxTasks
                        /\ url_cache' = ts.cs.cache
                        /\ next_cache_id' = ts.cs.next_id
                        /\ tasks' = ts.cs.tasks
                        /\ status_log' = ts.cs.status_log
                        /\ link_embedded' = ts.link_embedded
                        /\ r_last' =
                               [ResearchCall("extract_links", ts) EXCEPT
                                   !.urls = CallUrls(urls_arg, url_arg)]
        /\ UNCHANGED <<chunk_embedded, observed>>
        /\ UNCHANGED <<engineVars, httpVars, sessionVars>>

ExtractLinks(urls_arg, url_arg, query, max_links, link_embed, web) ==
    /\ \E r \in RankChoices(query) :
           extract_links_call(urls_arg, url_arg, query, max_links, link_embed,
                              web, r)
    /\ UNCHANGED pureVars

(***************************************************************************)
(* Background summarization tasks, other producers, eviction.              *)
(***************************************************************************)
TaskStepLeaves ==
    /\ r_last' = NoResearchCall
    /\ UNCHANGED <<next_cache_id, chunk_embedded, link_embedded, observed>>
    /\ UNCHANGED <<engineVars, httpVars, sessionVars, pureVars>>

\* a worker takes a queued task: it marks the row processing if the row is
\* still pending, and goes on to summarize
TaskStart(t) ==
    /\ t \in DOMAIN tasks
    /\ tasks[t].pc = "queued"
    /\ LET cs == update_status(CurrentCache, tasks[t].cache_id,
                               "pending", "processing", None)
       IN  /\ url_cache' = cs.cache
           /\ status_log' = cs.status_log
    /\ tasks' = [tasks EXCEPT ![t].pc = "summarizing"]
    /\ TaskStepLeaves

\* the summarization of a task ends: with the summary, or with an error
TaskFinish(t, ok) ==
    /\ t \in DOMAIN tasks
    /\ tasks[t].pc = "summarizing"
    /\ LET id  == tasks[t].cache_id
           u   == RowUrl(url_cache, id)
           cs  == IF ok /\ u # ""
                  THEN update_status(CurrentCache, id, "processing",
                                     "completed",
                                     Some(SummaryOf(url_cache[u])))
                  ELSE update_status(CurrentCache, id, "processing",
                                     "failed", None)
       IN  /\ url_cache' = cs.cache
           /\ status_log' = cs.status_log
    /\ tasks' = [tasks EXCEPT ![t].pc = "done"]
    /\ TaskStepLeaves

\* another producer calls cache_url for a url that is already cached
CacheUrlAgain(url, trigger, on_conflict) ==
    /\ IsCached(url_cache, url)
    /\ Len(tasks) < MaxTasks
    /\ LET cs == cache_url(CurrentCache, url, PageContent(url), url,
                           PageLinks(url), trigger, on_conflict)
       IN  /\ url_cache' = cs.cache
           /\ status_log' = cs.status_log
           /\ tasks' = cs.tasks
    /\ TaskStepLeaves

\* the cache evicts the row of url
Evict(url) ==
    /\ IsCached(url_cache, url)
    /\ url_cache' = [u \in DOMAIN url_cache \ {url} |-> url_cache[u]]
    /\ UNCHANGED <<tasks, status_log>>
    /\ TaskStepLeaves

(***************************************************************************)
(* execute_get_link_summaries                                              *)
(***************************************************************************)
SummaryEntry(title, text, status) ==
    [NoEntry EXCEPT !.kind = "summary", !.title = title, !.text = text,
                    !.status = status]

\* the entry get_link_summaries reports for a row (cache.get_summary)
summary_entry(row) ==
    IF row.summary_status = "completed" /\ row.summary.some
       /\ row.summary.v # ""
    THEN SummaryEntry(row.title, row.summary.v, "")
    ELSE IF row.summary_status = "processing"
    THEN SummaryEntry(row.title,
             "(Summary is being generated... try again in a moment)",
             "processing")
    ELSE IF row.summary_status = "failed"
    THEN SummaryEntry(row.title, "(Summary generation failed)", "failed")
    ELSE SummaryEntry(row.title, "(Summary pending)", row.summary_status)

\* the status a reader takes from an entry: an entry with the summary
\* itself carries no status and means completed
ReportedStatus(entry) ==
    IF entry.status = "" THEN "completed" ELSE entry.status

\* what the readers have seen of a row, with one more report
Observe(obs, id, status) ==
    IF id \notin DOMAIN obs THEN (id :> <<status>>) @@ obs
    ELSE IF obs[id][Len(obs[id])] = status THEN obs
    ELSE [obs EXCEPT ![id] = Append(@, status)]

RECURSIVE ObserveAll(_, _, _)
ObserveAll(obs, urls, results) ==
    IF urls = {} THEN obs
    ELSE LET u == CHOOSE x \in urls : TRUE
         IN  ObserveAll(
                 IF IsCached(url_cache, u)
                 THEN Observe(obs, url_cache[u].id,
                              ReportedStatus(results[u]))
                 ELSE obs,
                 urls \ {u}, results)

GetLinkSummaries(urls_arg) ==
    LET urls == DistinctUrls(ArgList(urls_arg))
        results == [u \in urls |->
                       IF IsCached(url_cache, u)
                       THEN summary_entry(url_cache[u])
                       ELSE ErrorEntry(NotCachedError)]
    IN  /\ IF urls = {}
           THEN /\ r_last' = NoUrlsCall("get_link_summaries")
                /\ UNCHANGED observed
           ELSE /\ r_last' = [NoResearchCall EXCEPT
                                 !.op = "get_link_summaries",
                                 !.results = results]
                /\ observed' = ObserveAll(observed, urls, results)
        /\ UNCHANGED <<url_cache, next_cache_id, tasks, chunk_embedded,
                       link_embedded, status_log>>
        /\ UNCHANGED <<engineVars, httpVars, sessionVars, pureVars>>

(***************************************************************************)
(* execute_get_relevant_content                                            *)
(***************************************************************************)
QueryRequiredError == "Query is required for relevant content retrieval."

ChunksEntry(title, count) ==
    [NoEntry EXCEPT !.kind = "chunks", !.title = title, !.link_count = count]
PreviewEntry(title, preview, fallback) ==
    [NoEntry EXCEPT !.kind = "preview", !.title = title, !.text = preview,
                    !.fallback = fallback]

\* content[:n] + ("..." if len(content) > n else "")
Preview(content, n) ==
    Prefix(content, n) \o (IF Len(content) > n THEN "..." ELSE "")

\* what the vector store may do in one pass: get_vector_store raises;
\* store_chunk_embeddings raises, stores nothing or stores the chunks;
\* search_chunks raises, finds nothing or finds chunks
VectorOutcome(store, search) == [store |-> store, search |-> search]
VectorOutcomes ==
    { VectorOutcome("unavailable", "raises"),
      VectorOutcome("raises", "found"), VectorOutcome("zero", "found"),
      VectorOutcome("stored", "raises"), VectorOutcome("stored", "none"),
      VectorOutcome("stored", "found") }

\* does the pass call store_chunk_embeddings, were it to embed every time
embeds_chunks_always(ce, cache_id, vo) == vo.store # "unavailable"
\* does the pass call store_chunk_embeddings: only when the vector store
\* can be had and has_chunk_embeddings(cache_id) is false
embeds_chunks(ce, cache_id, vo) ==
    vo.store # "unavailable" /\ cache_id \notin ce

\* the pass raises (and the except branch answers)
PassRaises(ce, cache_id, vo) ==
    \/ vo.store = "unavailable"
    \/ embeds_chunks(ce, cache_id, vo) /\ vo.store \in {"raises", "zero"}
    \/ vo.search = "raises"

\* the fallback entry of the except branch answering with an error
relevant_fallback_as_error(row) == ErrorEntry("Semantic search unavailable")
\* the fallback entry of the except branch
relevant_fallback(row) ==
    PreviewEntry(row.title, Preview(row.content, fallback_preview_chars),
                 TRUE)

\* the entry of one cached row with content
relevant_entry(ce, row, vo) ==
    IF PassRaises(ce, row.id, vo) THEN relevant_fallback(row)
    ELSE IF vo.search = "found" THEN ChunksEntry(row.title, 1)
    ELSE PreviewEntry(row.title,
                      Preview(row.content, no_match_preview_chars), FALSE)

\* one pass of the loop over urls: rs holds the chunk embeddings, the
\* results, the cache ids whose chunks were embedded and the urls whose
\* pass raised
relevant_one(rs, url, vo) ==
    IF ~IsCached(url_cache, url)
    THEN [rs EXCEPT !.results = (url :> ErrorEntry(NotCachedError)) @@ @]
    ELSE LET row == url_cache[url]
         IN  IF row.content = ""
             THEN [rs EXCEPT !.results =
                       (url :> ErrorEntry(EmptyContentError)) @@ @]
             ELSE [ce |-> IF embeds_chunks(rs.ce, row.id, vo)
                             /\ vo.store = "stored"
                          THEN rs.ce \cup {row.id} ELSE rs.ce,
                   results |-> (url :> relevant_entry(rs.ce, row, vo))
                                   @@ rs.results,
                   embedded |-> IF embeds_chunks(rs.ce, row.id, vo)
                                THEN Append(rs.embedded, row.id)
                                ELSE rs.embedded,
                   raised |-> IF PassRaises(rs.ce, row.id, vo)
                              THEN rs.raised \cup {url} ELSE rs.raised]

RECURSIVE relevant_loop(_, _, _)
relevant_loop(rs, order, vos) ==
    IF order = <<>> THEN rs
    ELSE relevant_loop(relevant_one(rs, Head(order), vos[Head(order)]),
                       Tail(order), vos)

\* one outcome for every url that is cached with content
VectorChoices(urls) ==
    { f \in [urls -> VectorOutcomes] :
          \A u \in urls :
              (~IsCached(url_cache, u) \/ url_cache[u].content = "")
                  => f[u] = VectorOutcome("stored", "found") }

GetRelevantContent(urls_arg, query) ==
    LET urls == DistinctUrls(ArgList(urls_arg))
    IN  /\ IF urls = {}
           THEN /\ r_last' = NoUrlsCall("get_relevant_content")
                /\ UNCHANGED chunk_embedded
           ELSE IF query = ""
           THEN /\ r_last' =
                       [NoResearchCall EXCEPT
                           !.op = "get_relevant_content",
                           !.results =
                               ("error" :> ErrorEntry(QueryRequiredError))]
                /\ UNCHANGED chunk_embedded
           ELSE \E order \in Orders(urls), vos \in VectorChoices(urls) :
                    LET rs == relevant_loop(
                                  [ce |-> chunk_embedded, results |-> <<>>,
                                   embedded |-> <<>>, raised |-> {}],
                                  order, vos)
                    IN  /\ chunk_embedded' = rs.ce
                        /\ r_last' =
                               [NoResearchCall EXCEPT
                                   !.op = "get_relevant_content",
                                   !.results = rs.results,
                                   !.embedded = rs.embedded,
                                   !.raised = rs.raised]
        /\ UNCHANGED <<url_cache, next_cache_id, tasks, link_embedded,
                       status_log, observed>>
        /\ UNCHANGED <<engineVars, httpVars, sessionVars, pureVars>>

(***************************************************************************)
(* Source adapters (src/src/asky/research/adapters.py) and                 *)
(* execute_get_full_content.                                               *)
(***************************************************************************)
\* str.startswith
startswith(str, prefix) ==
    Len(prefix) <= Len(str) /\ SubSeq(str, 1, Len(prefix)) = prefix

\* the enabled adapters of the configuration, longest prefix first
EnabledAdapters ==
    << [name |-> "local", prefix |-> "local://",
        discover_tool |-> "local_list", read_tool |-> "local_read"] >>

\* has_source_adapter(target)
has_source_adapter(target) ==
    /\ target # ""
    /\ \E i \in 1..Len(EnabledAdapters) :
           startswith(target, EnabledAdapters[i].prefix)

ContentEntry(title, content) ==
    [NoEntry EXCEPT !.kind = "content", !.title = title, !.text = content,
                    !.link_count = Len(content)]

\* the entry of get_full_content for one url
full_content_entry(cache, url) ==
    IF ~IsCached(cache, url) THEN ErrorEntry(NotCachedError)
    ELSE IF cache[url].content = "" THEN ErrorEntry(EmptyContentError)
    ELSE ContentEntry(cache[url].title, cache[url].content)

GetFullContent(urls_arg) ==
    LET urls == DistinctUrls(ArgList(urls_arg))
    IN  /\ r_last' =
               IF urls = {} THEN NoUrlsCall("get_full_content")
               ELSE [NoResearchCall EXCEPT
                        !.op = "get_full_content",
                        !.results =
                            [u \in urls |-> full_content_entry(url_cache, u)]]
        /\ UNCHANGED <<url_cache, next_cache_id, tasks, chunk_embedded,
                       link_embedded, status_log, observed>>
        /\ UNCHANGED <<engineVars, httpVars, sessionVars, pureVars>>

ResearchInit ==
    EngineInit /\ HttpIdle /\ SessionIdle /\ ResearchIdle /\ PureIdle

\* the calls of extract_links the model makes: urls, url
ExtractArgs ==
    { <<Absent, None>>, <<Absent, Some(UrlB)>>,
      <<UrlList(<<UrlA, "http:\\//a">>), None>>,
      <<UrlList(<<UrlA, UrlB>>), None>>,
      <<UrlList(<<"", UrlDoc>>), None>>,
      <<UrlText(UrlA), Some(UrlB)>> }

\* the research tools called one after the other, rows being evicted in
\* between
ResearchNext ==
    \/ \E a \in ExtractArgs, q \in ResearchQueries, ml \in MaxLinksArgs,
          le \in {"ok", "raises"} :
           ExtractLinks(a[1], a[2], q, ml, le, FetchOutcomesOf(UrlA))
    \/ \E u \in ResearchUrls : Evict(u)
    \/ \E ua \in UrlsArgs, q \in ResearchQueries : GetRelevantContent(ua, q)
    \/ \E ua \in UrlsArgs : GetFullContent(ua)

SpecResearch == ResearchInit /\ [][ResearchNext]_vars

\* the cache rows over time: producers insert rows, background tasks
\* summarize them, readers poll, rows are evicted
CacheNext ==
    \/ ExtractLinks(UrlList(<<UrlA, "http:\\//a">>), None, "", 30, "ok",
                    {"ok"})
    \/ \E t \in 1..MaxTasks : TaskStart(t)
    \/ \E t \in 1..MaxTasks, ok \in BOOLEAN : TaskFinish(t, ok)
    \/ \E u \in ResearchUrls, trigger \in BOOLEAN,
          oc \in {"noop", "update"} : CacheUrlAgain(u, trigger, oc)
    \/ \E u \in ResearchUrls : Evict(u)
    \/ \E ua \in UrlsArgs : GetLinkSummaries(ua)

SpecCache == ResearchInit /\ [][CacheNext]_vars

(***************************************************************************)
(* Properties of the cache rows.                                           *)
(***************************************************************************)
StatusPaths ==
    { <<"pending", "processing", "completed">>,
      <<"pending", "processing", "failed">> }
IsPrefixOf(a, b) == Len(a) <= Len(b) /\ SubSeq(b, 1, Len(a)) = a
\* a is b with some elements left out
IsSubsequenceOf(a, b) ==
    \E f \in [1..Len(a) -> 1..Len(b)] :
        /\ \A i \in 1..Len(a) : b[f[i]] = a[i]
        /\ \A i, j \in 1..Len(a) : i < j => f[i] < f[j]

\* C22: the statuses a cache row has held form a prefix of pending,
\* processing, then completed or failed, whatever the tasks working on the
\* row do and in whatever order; the row's status is the last of them,
\* and what the readers of get_link_summaries have reported of a row, in
\* order, is taken from such a path (never backwards, never both ends).
C22_StatusLifecycle ==
    /\ \A id \in DOMAIN status_log :
           \E path \in StatusPaths : IsPrefixOf(status_log[id], path)
    /\ \A u \in DOMAIN url_cache :
           LET row == url_cache[u]
           IN  /\ row.id \in DOMAIN status_log
               /\ status_log[row.id][Len(status_log[row.id])]
                      = row.summary_status
    /\ \A id \in DOMAIN observed :
           \E path \in StatusPaths : IsSubsequenceOf(observed[id], path)

\* C22 (witness): three tasks worked on one row, all are done, the row
\* went through to completed and a reader saw each of the three statuses.
C22_Witness ==
    \E u \in DOMAIN url_cache :
        LET id == url_cache[u].id
        IN  /\ Cardinality({t \in DOMAIN tasks :
                                tasks[t].cache_id = id
                                /\ tasks[t].pc = "done"}) = 3
            /\ status_log[id] = <<"pending", "processing", "completed">>
            /\ id \in DOMAIN observed
            /\ observed[id] = <<"pending", "processing", "completed">>

(***************************************************************************)
(* Properties of the research tools.  A step is a call of a tool when      *)
(* r_last' names the tool; url_cache and tasks are the state before the    *)
(* call, their primed versions the state after it.                         *)
(***************************************************************************)
\* how often x occurs in list
Occurrences(list, x) == Cardinality({i \in 1..Len(list) : list[i] = x})
Range(list) == {list[i] : i \in 1..Len(list)}
\* the call of the step went through its urls (it had some)
Looped(op) == r_last'.op = op /\ "error" \notin DOMAIN r_last'.results
\* a background task for the row id was started by the step
TaskStartedFor(id) ==
    /\ Len(tasks') = Len(tasks) + Cardinality({i \in DOMAIN tasks' :
                                                   i > Len(tasks)})
    /\ \E i \in DOMAIN tasks' :
           i > Len(tasks) /\ tasks'[i] = [cache_id |-> id, pc |-> "queued"]

\* C23: in a call of extract_links every url asked for gets its own entry.
\* A url that is cached is not fetched and not written to the cache, its
\* row stays as it is, and its entry is marked cached and lists links of
\* the cached row.  A url that is not cached is fetched exactly once,
\* however often the call names it; if the fetch fails the entry is an
\* error and the url stays uncached; otherwise cache_url is called once
\* for it, a summarization task is started for the new row, and the entry
\* is not marked cached.
C23_CacheWins ==
    [][Looped("extract_links") =>
         /\ \A i \in 1..Len(r_last'.urls) :
                r_last'.urls[i] # ""
                    => _sanitize_url(r_last'.urls[i]) \in DOMAIN r_last'.results
         /\ \A u \in DOMAIN r_last'.results :
                LET entry == r_last'.results[u]
                IN  IF u \in DOMAIN url_cache
                    THEN /\ Occurrences(r_last'.fetched, u) = 0
                         /\ Occurrences(r_last'.cache_writes, u) = 0
                         /\ u \in DOMAIN url_cache'
                         /\ url_cache'[u] = url_cache[u]
                         /\ entry.kind = "links"
                         /\ entry.cached
                         /\ Range(entry.links) \subseteq
                                Range(url_cache[u].links)
                    ELSE /\ Occurrences(r_last'.fetched, u) = 1
                         /\ IF entry.kind = "error"
                            THEN /\ u \notin DOMAIN url_cache'
                                 /\ Occurrences(r_last'.cache_writes, u) = 0
                            ELSE /\ entry.kind = "links"
                                 /\ ~entry.cached
                                 /\ Occurrences(r_last'.cache_writes, u) = 1
                                 /\ u \in DOMAIN url_cache'
                                 /\ TaskStartedFor(url_cache'[u].id)
         /\ \A u \in DOMAIN url_cache \ DOMAIN r_last'.results :
                u \in DOMAIN url_cache' /\ url_cache'[u] = url_cache[u]]_vars

\* C23 (witness): a call for both pages found the first in the cache and
\* failed to fetch the second: one cached entry, one error entry, one
\* fetch, no cache write.
C23_Witness ==
    /\ r_last.op = "extract_links"
    /\ DOMAIN r_last.results = {UrlA, UrlB}
    /\ r_last.results[UrlA].cached
    /\ r_last.results[UrlA].links = PageLinks(UrlA)
    /\ r_last.results[UrlB].kind = "error"
    /\ r_last.fetched = <<UrlB>>
    /\ r_last.cache_writes = <<>>
    /\ UrlB \notin DOMAIN url_cache

\* the rows of the urls whose pass of get_relevant_content raised, and the
\* chunk embeddings computed by the call, seen from the step
EmbeddedOnlyWhenNone ==
    \A i \in 1..Len(r_last'.embedded) :
        /\ r_last'.embedded[i] \notin chunk_embedded
        /\ Occurrences(r_last'.embedded, r_last'.embedded[i]) = 1

\* C24 (as claimed): in a call of get_relevant_content, every cached url
\* with content whose chunk embedding or chunk search raised gets an entry
\* with fallback: true and a content_preview that is a prefix of the cached
\* content, not an error; and chunk embeddings are computed only for rows
\* that has_chunk_embeddings reports none for.
C24_FallbackPreviewIsPrefix ==
    [][Looped("get_relevant_content") =>
         /\ \A u \in r_last'.raised :
                LET entry == r_last'.results[u]
                IN  /\ entry.kind = "preview"
                    /\ entry.fallback
                    /\ IsPrefixOf(entry.text, url_cache[u].content)
         /\ EmbeddedOnlyWhenNone]_vars

\* C24 (amended): as claimed, but the content_preview is the first 3000
\* characters of the cached content, followed by "..." when the content is
\* longer than that (a prefix of the content only up to 3000 characters).
C24_FallbackPreview ==
    [][Looped("get_relevant_content") =>
         /\ \A u \in r_last'.raised :
                LET entry   == r_last'.results[u]
                    content == url_cache[u].content
                IN  /\ content # ""
                    /\ entry.kind = "preview"
                    /\ entry.fallback
                    /\ IF Len(content) <= 3000
                       THEN entry.text = content
                       ELSE /\ Len(entry.text) = 3003
                            /\ SubSeq(entry.text, 1, 3000)
                                   = SubSeq(content, 1, 3000)
                            /\ SubSeq(entry.text, 3001, 3003) = "..."
         /\ EmbeddedOnlyWhenNone]_vars

\* C24 (witness): a call for both pages, the vector store failing for
\* both: the short page is previewed whole, the long page cut with "...",
\* both marked as fallback.
C24_Witness ==
    /\ r_last.op = "get_relevant_content"
    /\ r_last.raised = {UrlA, UrlB}
    /\ r_last.results[UrlA].fallback
    /\ r_last.results[UrlA].text = "Alpha page"
    /\ r_last.results[UrlB].fallback
    /\ Len(r_last.results[UrlB].text) = 3003
    /\ url_cache[UrlB].content = LongContent

\* C25: in a call of get_full_content, a url that is not cached and that a
\* configured source adapter handles is read through the adapter's read
\* tool, called with {target, operation: "read", max_links: 50}; the
\* payload is cached and the entry carries the cached content, not an
\* error.
C25_AdapterHydratesFullContent ==
    [][Looped("get_full_content") =>
         \A u \in DOMAIN r_last'.results :
             (u \notin DOMAIN url_cache /\ has_source_adapter(u))
                 => /\ [tool |-> "local_read", target |-> u,
                        operation |-> "read",
                        max_links |-> DEFAULT_ADAPTER_MAX_LINKS]
                           \in Range(r_last'.tool_calls)
                    /\ u \in DOMAIN url_cache'
                    /\ r_last'.results[u].kind = "content"
                    /\ r_last'.results[u].text = url_cache'[u].content]_vars

(***************************************************************************)
(* Functions applied on their own (specification SpecFunctions): the slug  *)
(* generators on texts made of a few words, and one dispatch of an         *)
(* executor with the engine's summarize flag and usage tracker.            *)
(***************************************************************************)
\* words of a text at most
MaxWords == 3

\* a word as it is written, and in lower case
Word(w, l) == [w |-> w, l |-> l]
SlugWords ==
    { Word("what", "what"), Word("is", "is"), Word("The", "the"),
      Word("Meaning", "meaning"), Word("of", "of"), Word("life", "life"),
      Word("AI", "ai"), Word("cats", "cats") }
MeaningOfLife ==
    << Word("what", "what"), Word("is", "is"), Word("the", "the"),
       Word("meaning", "meaning"), Word("of", "of"), Word("life", "life") >>
\* all-stopword text of more than 20 characters
LongStopwords ==
    << Word("what", "what"), Word("is", "is"), Word("the", "the"),
       Word("what", "what"), Word("is", "is"), Word("the", "the") >>

RECURSIVE Written(_)
Written(words) ==
    IF words = <<>> THEN ""
    ELSE IF Len(words) = 1 THEN words[1].w
    ELSE words[1].w \o " " \o Written(Tail(words))

\* the texts the functions are applied to, with the words they are made of
SlugInput(text, words) == [text |-> text, words |-> words]
SlugInputs ==
    { SlugInput(Written(ws), ws) :
          ws \in UNION { [1..n -> SlugWords] : n \in 0..MaxWords } }
    \cup { SlugInput(Written(MeaningOfLife), MeaningOfLife),
           SlugInput(Written(LongStopwords), LongStopwords),
           SlugInput("!!!", <<>>), SlugInput("is, it?", <<Word("is", "is"),
                                                         Word("it", "it")>>) }
SlugMaxWords == {1, 2, 5}

GenerateSlug(in, max_words) ==
    /\ applied = NoApplication
    /\ applied' = [fn |-> "generate_slug", text |-> in.text,
                   words |-> in.words, max_words |-> max_words,
                   result |-> generate_slug(in.text, max_words)]
    /\ UNCHANGED <<engineVars, httpVars, sessionVars, researchVars>>

GenerateSessionName(in) ==
    /\ applied = NoApplication
    /\ applied' = [fn |-> "generate_session_name", text |-> in.text,
                   words |-> in.words, max_words |-> session_name_words,
                   result |-> generate_session_name(in.text)]
    /\ UNCHANGED <<engineVars, httpVars, sessionVars, researchVars>>

\* ---- dispatch with the engine's flags ----
\* an executor: the tool it is registered for and the parameters its
\* signature declares besides args
Executor(name, params) == [name |-> name, params |-> params]
Executors ==
    { Executor("get_url_content", {"summarize", "usage_tracker"}),
      Executor("web_search", {}),
      Executor("custom_a", {"summarize"}),
      Executor("custom_b", {"usage_tracker"}) }
\* the summarize and usage_tracker arguments of dispatch
EngineFlags == {"true", "false"}
UsageTrackers == {"none", "tracker"}
\* the summarize member of the model's arguments: absent, or a JSON value
ArgSummarize == {"absent", "true", "false", "null"}

\* the keyword arguments dispatch builds, were it to pass both every time
call_kwargs_always(params, summarize, usage_tracker) ==
    [k \in {"summarize", "usage_tracker"} |->
        IF k = "summarize" THEN summarize ELSE usage_tracker]
\* the keyword arguments dispatch builds from the executor's signature
call_kwargs(params, summarize, usage_tracker) ==
    [k \in params \cap {"summarize", "usage_tracker"} |->
        IF k = "summarize" THEN summarize ELSE usage_tracker]

\* effective_summarize with the engine's flag winning when it is set
effective_summarize_engine_first(arg, summarize) ==
    IF summarize = "true" THEN "true"
    ELSE IF arg # "absent" THEN arg ELSE summarize
\* effective_summarize = args.get("summarize", summarize)
effective_summarize(arg, summarize) ==
    IF arg # "absent" THEN arg ELSE summarize

\* the truth value of a JSON value in Python
truthy(value) == value = "true"

\* one dispatch of a call for the executor's tool: the keyword arguments
\* the executor is called with and, for url_content_executor, the
\* summarize parameter it sees, the effective flag and whether it
\* summarizes
DispatchWithFlags(executor, summarize, usage_tracker, arg) ==
    LET kwargs == call_kwargs(executor.params, summarize, usage_tracker)
        \* summarize: bool = False
        param  == IF "summarize" \in DOMAIN kwargs THEN kwargs["summarize"]
                  ELSE "false"
        eff    == effective_summarize(arg, param)
    IN  /\ applied = NoApplication
        /\ applied' = [fn |-> "dispatch", executor |-> executor,
                       summarize |-> summarize,
                       usage_tracker |-> usage_tracker, arg |-> arg,
                       kwargs |-> kwargs, effective |-> eff,
                       summarized |-> executor.name = "get_url_content"
                                      /\ truthy(eff)]
        /\ UNCHANGED <<engineVars, httpVars, sessionVars, researchVars>>

\* the result has been used: the next application starts afresh
Forget ==
    /\ applied # NoApplication
    /\ applied' = NoApplication
    /\ UNCHANGED <<engineVars, httpVars, sessionVars, researchVars>>

FunctionsInit ==
    EngineInit /\ HttpIdle /\ SessionIdle /\ ResearchIdle /\ PureIdle

FunctionsNext ==
    \/ \E in \in SlugInputs, n \in SlugMaxWords : GenerateSlug(in, n)
    \/ \E in \in SlugInputs : GenerateSessionName(in)
    \/ \E e \in Executors, f \in EngineFlags, t \in UsageTrackers,
          a \in ArgSummarize : DispatchWithFlags(e, f, t, a)
    \/ Forget

SpecFunctions == FunctionsInit /\ [][FunctionsNext]_vars

(***************************************************************************)
(* Properties of dispatch with flags and of the slug generators.           *)
(***************************************************************************)
\* C26: the executor is called with summarize, and with usage_tracker,
\* exactly when its signature declares the parameter, and then with the
\* value dispatch was given; for get_url_content the effective summarize
\* flag is the summarize value of the model's arguments whenever they
\* contain one, and the engine's flag only when they do not.
C26_ToolArgumentsTakePrecedence ==
    applied.fn = "dispatch" =>
        /\ DOMAIN applied.kwargs = applied.executor.params
        /\ "summarize" \in DOMAIN applied.kwargs
               => applied.kwargs["summarize"] = applied.summarize
        /\ "usage_tracker" \in DOMAIN applied.kwargs
               => applied.kwargs["usage_tracker"] = applied.usage_tracker
        /\ applied.executor.name = "get_url_content"
               => /\ applied.effective =
                         IF applied.arg = "absent" THEN applied.summarize
                         ELSE applied.arg
                  /\ applied.summarized = (applied.effective = "true")

\* C26 (witness): the engine summarizes, the model's call says
\* summarize: false, and get_url_content does not summarize.
C26_Witness ==
    /\ applied.fn = "dispatch"
    /\ applied.executor.name = "get_url_content"
    /\ applied.summarize = "true"
    /\ applied.arg = "false"
    /\ applied.effective = "false"
    /\ ~applied.summarized

\* the words of the input that are no stopwords and longer than two
\* letters, in lower case and in their order
RECURSIVE Kept(_)
Kept(words) ==
    IF words = <<>> THEN <<>>
    ELSE (IF Head(words).l \notin STOPWORDS /\ Len(Head(words).l) > 2
          THEN <<Head(words).l>> ELSE <<>>) \o Kept(Tail(words))
RECURSIVE Joined(_, _)
Joined(list, sep) ==
    IF list = <<>> THEN ""
    ELSE IF Len(list) = 1 THEN list[1]
    ELSE list[1] \o sep \o Joined(Tail(list), sep)
RECURSIVE LowerLetters(_)
LowerLetters(words) ==
    IF words = <<>> THEN "" ELSE Head(words).l \o LowerLetters(Tail(words))
Slugged == applied.fn \in {"generate_slug", "generate_session_name"}

\* C27: for a text with at least one word that is no stopword and longer
\* than two letters, the slug is the first max_words of those words (all
\* of them if there are fewer), lowercased, in their order, joined by "_";
\* "what is the meaning of life" gives "meaning_life".
C27_SlugKeepsKeyWords ==
    (Slugged /\ Kept(applied.words) # <<>>) =>
        LET kept == Kept(applied.words)
            n    == IF Len(kept) <= applied.max_words THEN Len(kept)
                    ELSE applied.max_words
        IN  /\ applied.result = Joined(SubSeq(kept, 1, n), "_")
            /\ (applied.text = "what is the meaning of life"
                    /\ applied.max_words >= 2)
                   => applied.result = "meaning_life"

\* C27 (witness): generate_slug("what is the meaning of life", 5).
C27_Witness ==
    /\ applied.fn = "generate_slug"
    /\ applied.text = "what is the meaning of life"
    /\ applied.max_words = 5
    /\ applied.result = "meaning_life"

StatusHeader == "\n\n[SYSTEM UPDATE]:\n- Context Used: "
Headers(content) ==
    Cardinality({ i \in DOMAIN content : content[i] = StatusHeader })
StartsWithSystem(msgs) == msgs # <<>> /\ msgs[1].role = "system"

\* C29: at every chat-completion call of a run whose first message is a
\* system message, the content of that message is the system prompt run
\* was called with, followed by exactly one status suffix, the one of the
\* current turn t with MAX_TURNS - t + 1 turns remaining, and no other
\* message is touched; in a run whose first message is no system message
\* the call changes no message.
C29_StatusSuffixIsRecomputed ==
    [][ chat_count' = chat_count + 1 =>
          IF StartsWithSystem(messages0)
          THEN LET c == messages'[1].content
                   o == messages0[1].content
               IN  /\ messages'[1].role = "system"
                   /\ Len(c) = Len(o) + 8
                   /\ SubSeq(c, 1, Len(o)) = o
                   /\ c[Len(o) + 1] = StatusHeader
                   /\ c[Len(o) + 4] = ToString(MAX_TURNS - turn' + 1)
                   /\ c[Len(o) + 6] = ToString(MAX_TURNS)
                   /\ Headers(c) = 1
                   /\ \A i \in 2..Len(messages) : messages'[i] = messages[i]
          ELSE SubSeq(messages', 1, Len(messages)) = messages ]_vars

\* C29 (witness): the second chat call of a run with a system message has
\* been made; the system message carries one suffix, with one turn left.
C29_Witness ==
    /\ StartsWithSystem(messages0)
    /\ chat_count = 2
    /\ turn = 2
    /\ Headers(messages[1].content) = 1
    /\ messages[1].content[Len(messages0[1].content) + 4] = "1"

ContainsMarker(content) ==
    \E i \in 1..(Len(content) - 1) : content[i] = "to=functions."
MarkedName(content) ==
    content[(CHOOSE i \in 1..(Len(content) - 1) :
                 /\ content[i] = "to=functions."
                 /\ \A l \in 1..(i - 1) : content[l] # "to=functions.") + 1]
ContainsObject(content) ==
    \E k \in DOMAIN content : json_loads(content[k]) = "object"
GroupIsObject(content) ==
    /\ brace_group(content).found
    /\ json_loads(brace_group(content).text) = "object"
OneTextualCall(msg) ==
    /\ pc' = "dispatch"
    /\ Len(calls') = 1
    /\ calls'[1].id = "textual_call_" \o ToString(turn')
    /\ calls'[1].name = MarkedName(msg.content)
IsFinalAnswer(msg) ==
    /\ pc' = "done"
    /\ final_answer' = strip_think_tags(msg.content)
    /\ calls' = calls

\* C30 (as claimed): a response with a non-empty tool_calls has exactly
\* those calls; otherwise a content that contains to=functions.<name> and
\* a parseable JSON object gives one call with the id textual_call_<turn>;
\* otherwise the response is the final answer.
C30_ExtractionPrefersStructured ==
    [][ responses' = responses + 1 =>
          LET msg == last_response'
          IN  IF msg.tool_calls # <<>>
              THEN pc' = "dispatch" /\ calls' = msg.tool_calls
              ELSE IF ContainsMarker(msg.content)
                        /\ ContainsObject(msg.content)
              THEN OneTextualCall(msg)
              ELSE IsFinalAnswer(msg) ]_vars

\* C30 (amended): a response with a non-empty tool_calls has exactly those
\* calls and its content is not parsed; otherwise a content that contains
\* to=functions.<name> and whose text from its first "{" to its last "}"
\* is a parseable JSON object gives one call with the id
\* textual_call_<turn>, that name and that text as arguments; otherwise
\* the response has no calls and is the final answer.
C30_ExtractionUsesBraceGroup ==
    [][ responses' = responses + 1 =>
          LET msg == last_response'
          IN  IF msg.tool_calls # <<>>
              THEN pc' = "dispatch" /\ calls' = msg.tool_calls
              ELSE IF ContainsMarker(msg.content)
                        /\ GroupIsObject(msg.content)
              THEN /\ OneTextualCall(msg)
                   /\ calls'[1].arguments = Str(brace_group(msg.content).text)
              ELSE IsFinalAnswer(msg) ]_vars

\* C30 (witness): the response of turn 2 had no tool_calls and the textual
\* form of a call; the call textual_call_2 waits for its dispatch.
C30_Witness ==
    /\ pc = "dispatch"
    /\ turn = 2
    /\ last_response.tool_calls = <<>>
    /\ ContainsMarker(last_response.content)
    /\ Len(calls) = 1
    /\ calls[1].id = "textual_call_2"

\* C31: when the answer without tool calls arrives on turn MAX_TURNS, the
\* run returns that answer after exactly MAX_TURNS chat-completion calls
\* and the max-turns error line is not logged.
C31_AnswerOnLastTurnIsNoError ==
    (pc = "done" /\ responses = MAX_TURNS /\ ~HasCalls(last_response, turn))
        => /\ chat_count = MAX_TURNS
           /\ returned = strip_think_tags(last_response.content)
           /\ \A i \in DOMAIN log : log[i] # MaxTurnsLine

(***************************************************************************)
(* Properties of check_and_compact and build_context_messages.  A step is  *)
(* a call of one of them when sm_last' says so.                            *)
(***************************************************************************)
CheckCall == sm_last'.op = "check_and_compact"
BuildCall == sm_last'.op = "build_context_messages"
CountedTokens ==
    context_tokens(build_context_messages(current_session, session_msgs))
CompactionStored ==
    /\ sm_last'.kind = "true"
    /\ current_session.id \in Ids(sessions) =>
           /\ sessions'[current_session.id].compacted_summary.some
           /\ sessions'[current_session.id].compacted_summary.v
                  \in SummarizerOutputs
                      \cup {join_parts(session_msgs[current_session.id])}
    /\ current_session.id \in DOMAIN compacted'
NothingCompacted ==
    /\ sm_last'.kind = "false"
    /\ sessions' = sessions
    /\ session_msgs' = session_msgs
    /\ compacted' = compacted

\* C32 (as claimed): check_and_compact compacts and returns true exactly
\* when the token count of build_context_messages() is at least
\* context_size * compaction_threshold / 100; below that it returns false
\* and leaves summaries and messages alone; without a current session it
\* returns false and changes nothing.
C32_CompactsAtExactThreshold ==
    [][ CheckCall =>
          IF ~current_session.some THEN NothingCompacted
          ELSE IF 100 * CountedTokens
                      >= SessionContextSize * CompactionThreshold
          THEN CompactionStored
          ELSE NothingCompacted ]_vars

\* C32 (amended): check_and_compact compacts and returns true exactly when
\* the token count of build_context_messages() is at least the integer
\* part of context_size * compaction_threshold / 100 (that value itself
\* triggers); below it the call returns false and leaves summaries and
\* messages alone; without a current session it returns false and changes
\* nothing.
C32_CompactsAtTruncatedThreshold ==
    [][ CheckCall =>
          IF ~current_session.some THEN NothingCompacted
          ELSE IF 100 * CountedTokens
                      >= SessionContextSize * CompactionThreshold
                         - ((SessionContextSize * CompactionThreshold) % 100)
          THEN CompactionStored
          ELSE NothingCompacted ]_vars

\* C32 (witness): a call that counted exactly the integer part of the
\* threshold, itself below the exact product, compacted and returned true.
C32_Witness ==
    /\ sm_last.op = "check_and_compact"
    /\ sm_last.kind = "true"
    /\ 100 * sm_last.tokens < SessionContextSize * CompactionThreshold
    /\ 100 * (sm_last.tokens + 1) > SessionContextSize * CompactionThreshold
    /\ sm_last.id \in DOMAIN compacted

\* C33: build_context_messages returns the empty list without a current
\* session; otherwise, if and only if the manager's Session object has a
\* compacted summary, first the user message "Previous conversation
\* summary:" with that summary and the assistant acknowledgement, and then
\* every stored message of the session, role and content, in the order of
\* insertion.
C33_ContextOrder ==
    [][ BuildCall =>
          LET ctx == sm_last'.context
          IN  IF ~current_session.some THEN ctx = <<>>
              ELSE LET stored == IF current_session.id \in DOMAIN session_msgs
                                 THEN session_msgs[current_session.id]
                                 ELSE <<>>
                       has == IsSet(current_session.compacted_summary)
                       k == IF has THEN 2 ELSE 0
                   IN  /\ Len(ctx) = k + Len(stored)
                       /\ has =>
                            /\ ctx[1] = [role |-> "user", content |->
                                   "Previous conversation summary:\n"
                                   \o current_session.compacted_summary.v]
                            /\ ctx[2].role = "assistant"
                            /\ ctx[2].content =
                                 "I understand the context. How can I help further?"
                       /\ \A i \in 1..Len(stored) :
                            ctx[k + i] = [role |-> stored[i].role,
                                          content |-> stored[i].content] ]_vars

\* C33 (witness): the context of a session resumed with its summary and
\* two turns stored: the pair, then the four messages.
C33_Witness ==
    /\ sm_last.op = "build_context_messages"
    /\ Len(sm_last.context) = 6
    /\ sm_last.context[2].role = "assistant"
    /\ sm_last.context[3].role = "user"
    /\ IsSet(current_session.compacted_summary)

\* C34: the build_context_messages call that follows a check_and_compact
\* call which returned true, with no resume in between, begins with the
\* summary pair holding the summary the compaction stored.
C34_ContextAfterCompaction ==
    [][ (BuildCall /\ sm_last.op = "check_and_compact"
                   /\ sm_last.kind = "true"
                   /\ sm_last.id \in Ids(sessions))
          => LET ctx == sm_last'.context
                 summary == sessions[sm_last.id].compacted_summary.v
             IN  /\ Len(ctx) >= 2
                 /\ SubSeq(ctx, 1, 2) = SummaryPair(summary) ]_vars

\* C35: every tool message answers a call recorded on an assistant message:
\* its tool_call_id is the id of one of the tool_calls of the nearest
\* assistant message before it, also for a call synthesised from text.
C35_ToolMessageAnswersRecordedCall ==
    \A i \in DOMAIN messages :
        messages[i].role = "tool" =>
            /\ \E j \in 1..(i - 1) : messages[j].role = "assistant"
            /\ LET j == CHOOSE k \in 1..(i - 1) :
                            /\ messages[k].role = "assistant"
                            /\ \A l \in (k + 1)..(i - 1) :
                                   messages[l].role # "assistant"
               IN  \E n \in DOMAIN messages[j].tool_calls :
                       messages[j].tool_calls[n].id = messages[i].tool_call_id

\* C36: dispatch is total: whatever the shape of the arguments field of the
\* call (absent, empty, null, an already-decoded object, JSON text that is
\* no object), it returns a result object and does not raise.
C36_DispatchIsTotal ==
    (pc = "registry" /\ dispatched # <<>>)
        => /\ last_dispatch.outcome.status = "returned"
           /\ last_dispatch.outcome.result.key \in {"error"} \cup DefaultTools

(***************************************************************************)
(* One ConversationEngine used for consecutive runs: run is called again   *)
(* on the engine whose previous run has returned.                          *)
(***************************************************************************)
MaxRuns == 2

\* run(messages) on an engine that has run before: the locals are set up
\* anew, the attributes of the engine are what the previous run left; the
\* counters and lines recorded for a run start again.
RunAgain(msgs) ==
    /\ pc = "done"
    /\ runs < MaxRuns
    /\ messages' = msgs
    /\ messages0' = msgs
    /\ turn' = 0
    /\ original_system_prompt' =
           IF msgs # <<>> /\ msgs[1].role = "system" THEN msgs[1].content
           ELSE <<>>
    /\ pc' = "loop"
    /\ runs' = runs + 1
    /\ calls' = <<>>
    /\ ci' = 0
    /\ last_response' = NoMsg
    /\ chat_count' = 0
    /\ responses' = 0
    /\ dispatched' = <<>>
    /\ last_dispatch' = NoDispatch
    /\ log' = <<>>
    /\ returned' = <<>>
    /\ UNCHANGED <<final_answer, executors>>
    /\ UNCHANGED <<httpVars, sessionVars, researchVars, pureVars>>

ReuseNext ==
    \/ Next
    \/ \E msgs \in InitialMessages : RunAgain(msgs)

SpecReuse == Init /\ [][ReuseNext]_vars

\* C37: a run of an engine that has run before and in which no response
\* without tool calls came (the turns were used up, or the model call
\* failed) returns the empty string, not the answer of the run before.
C37_RunReturnsOwnAnswer ==
    (pc = "done" /\ runs > 1
         /\ ~(responses > 0 /\ ~HasCalls(last_response, turn)))
        => returned = <<>>

(***************************************************************************)
(* extract_links with the arguments and the ranking outcome of the call    *)
(* kept next to its result.                                                *)
(***************************************************************************)
ExtractLinksWith(a, query, max_links, link_embed, r) ==
    /\ extract_links_call(a[1], a[2], query, max_links, link_embed,
                          FetchOutcomesOf(UrlA), r)
    /\ applied' = [fn |-> "extract_links", query |-> query,
                   max_links |-> max_links, rank |-> r.rank]

LinksNext ==
    \/ \E a \in ExtractArgs, q \in ResearchQueries, ml \in MaxLinksArgs,
          le \in {"ok", "raises"} :
           \E r \in RankChoices(q) : ExtractLinksWith(a, q, ml, le, r)
    \/ \E u \in ResearchUrls : Evict(u)

SpecLinks == ResearchInit /\ [][LinksNext]_vars

\* C38: every entry extract_links returns for a url holds links only, no
\* page text and no title, each of them a link of the page, and at most
\* max_links of them; when a query is given and the ranking raises or
\* yields nothing, they are the first max_links links of the page, in the
\* order of the page.
C38_LinksOnlyAndBounded ==
    (r_last.op = "extract_links" /\ applied.fn = "extract_links") =>
        \A u \in DOMAIN r_last.results :
            LET e == r_last.results[u]
            IN  e.kind = "links" =>
                  LET page == url_cache[u].links
                      n == IF Len(page) <= applied.max_links THEN Len(page)
                           ELSE applied.max_links
                  IN  /\ e.text = "" /\ e.title = ""
                      /\ Len(e.links) <= applied.max_links
                      /\ e.link_count = Len(e.links)
                      /\ \A i \in DOMAIN e.links :
                             \E j \in DOMAIN page : e.links[i] = page[j]
                      /\ (applied.query # ""
                              /\ applied.rank \in {"raises", "empty"})
                             => /\ Len(e.links) = n
                                /\ \A i \in 1..n : e.links[i] = page[i]

\* C38 (witness): a page with two links, asked for with a query and
\* max_links = 1, the ranking raising: the first link is returned.
C38_Witness ==
    /\ r_last.op = "extract_links"
    /\ applied.fn = "extract_links"
    /\ applied.query # ""
    /\ applied.rank = "raises"
    /\ applied.max_links = 1
    /\ UrlA \in DOMAIN r_last.results
    /\ r_last.results[UrlA].kind = "links"
    /\ Len(url_cache[UrlA].links) = 2
    /\ r_last.results[UrlA].links = <<url_cache[UrlA].links[1]>>
(***************************************************************************)
(* Source adapters read from the configuration                             *)
(* (src/src/asky/research/adapters.py): RESEARCH_SOURCE_ADAPTERS is a      *)
(* mapping from adapter names to settings, modelled as the sequence of its *)
(* items in insertion order.  An absent or empty tool setting is the empty *)
(* string; an absent prefix is None.                                       *)
(***************************************************************************)
AdapterSetting(name, enabled, prefix, tool, discover_tool, list_tool, read_tool) ==
    [name |-> name, enabled |-> enabled, prefix |-> prefix, tool |-> tool,
     discover_tool |-> discover_tool, list_tool |-> list_tool,
     read_tool |-> read_tool]

\* the settings the configurations of the model are made of
AdapterSettings ==
    << AdapterSetting("local", TRUE, Some("local://"), "local_tool", "", "", ""),
       AdapterSetting("docs", TRUE, Some(" local://docs/ "), "", "",
                      "docs_list", "docs_read"),
       AdapterSetting("off", FALSE, Some("local://docs/x"), "off_tool", "", "", ""),
       AdapterSetting("blank", TRUE, Some(" "), "blank_tool", "", "", ""),
       AdapterSetting("toolless", TRUE, Some("local://d"), " ", "", "", ""),
       AdapterSetting("kb", TRUE, None, "", "", "", "kb_read") >>

\* the largest number of adapters in one configuration
MaxAdapters == 2

\* the configurations: sequences of distinct settings
AdapterConfigs ==
    {<<>>}
    \cup UNION {{[i \in 1..n |-> AdapterSettings[f[i]]] :
                    f \in {g \in [1..n -> DOMAIN AdapterSettings] :
                              \A i, j \in 1..n : i # j => g[i] # g[j]}} :
                n \in 1..MaxAdapters}

AdapterTargets ==
    {"", "local://docs/x1", "local://paper", "kb://a", "http://a"}

\* str.strip, for the blank character
RECURSIVE strip(_)
strip(s) ==
    IF s = "" THEN ""
    ELSE IF SubSeq(s, 1, 1) = " " THEN strip(SubSeq(s, 2, Len(s)))
    ELSE IF SubSeq(s, Len(s), Len(s)) = " "
         THEN strip(SubSeq(s, 1, Len(s) - 1))
    ELSE s

\* a or b, for texts
or_else(a, b) == IF a # "" THEN a ELSE b

\* the tools and the prefix _get_enabled_adapters reads from one setting
discover_setting(e) ==
    strip(or_else(e.discover_tool, or_else(e.list_tool, strip(e.tool))))
read_setting(e) == strip(or_else(e.read_tool, strip(e.tool)))
prefix_setting(e) ==
    strip(IF e.prefix.some THEN e.prefix.v ELSE e.name \o "://")

\* the setting yields an adapter: enabled, with a tool and a prefix
is_usable(e) ==
    /\ e.enabled
    /\ discover_setting(e) # "" \/ read_setting(e) # ""
    /\ prefix_setting(e) # ""

\* the adapter of a usable setting: a missing tool is the other one
ResearchSourceAdapter(e) ==
    [name |-> e.name, prefix |-> prefix_setting(e),
     discover_tool |-> or_else(discover_setting(e), read_setting(e)),
     read_tool |-> or_else(read_setting(e), discover_setting(e))]

\* the adapters of the usable settings, in configuration order
RECURSIVE usable_adapters(_)
usable_adapters(cfg) ==
    IF cfg = <<>> THEN <<>>
    ELSE (IF is_usable(Head(cfg)) THEN <<ResearchSourceAdapter(Head(cfg))>> ELSE <<>>)
         \o usable_adapters(Tail(cfg))

\* an ascending sort instead of reverse=True
insert_shortest_first(sorted, a) ==
    LET k == Cardinality({i \in DOMAIN sorted :
                             Len(sorted[i].prefix) <= Len(a.prefix)})
    IN  SubSeq(sorted, 1, k) \o <<a>> \o SubSeq(sorted, k + 1, Len(sorted))
\* one insertion of the stable sort by len(prefix), reverse=True: after
\* every adapter whose prefix is at least as long
insert_longest_first(sorted, a) ==
    LET k == Cardinality({i \in DOMAIN sorted :
                             Len(sorted[i].prefix) >= Len(a.prefix)})
    IN  SubSeq(sorted, 1, k) \o <<a>> \o SubSeq(sorted, k + 1, Len(sorted))

\* adapters.sort(key=lambda a: len(a.prefix), reverse=True)
RECURSIVE sort_adapters(_)
sort_adapters(adapters) ==
    IF adapters = <<>> THEN <<>>
    ELSE insert_longest_first(
             sort_adapters(SubSeq(adapters, 1, Len(adapters) - 1)),
             adapters[Len(adapters)])

\* _get_enabled_adapters() under the configuration cfg
_get_enabled_adapters(cfg) == sort_adapters(usable_adapters(cfg))

\* no adapter (None), and an adapter found
NoAdapter ==
    [found |-> FALSE, name |-> "", prefix |-> "", discover_tool |-> "",
     read_tool |-> ""]
Found(a) ==
    [found |-> TRUE, name |-> a.name, prefix |-> a.prefix,
     discover_tool |-> a.discover_tool, read_tool |-> a.read_tool]

\* the first of the adapters whose prefix starts the target
RECURSIVE first_match(_, _)
first_match(adapters, target) ==
    IF adapters = <<>> THEN NoAdapter
    ELSE IF startswith(target, Head(adapters).prefix) THEN Found(Head(adapters))
    ELSE first_match(Tail(adapters), target)

\* get_source_adapter(target) under the configuration cfg
get_source_adapter(cfg, target) ==
    IF target = "" THEN NoAdapter
    ELSE first_match(_get_enabled_adapters(cfg), target)

\* one call of get_source_adapter
GetSourceAdapter(cfg, target) ==
    /\ applied = NoApplication
    /\ applied' = [fn |-> "get_source_adapter", config |-> cfg,
                   target |-> target,
                   result |-> get_source_adapter(cfg, target)]
    /\ UNCHANGED <<engineVars, httpVars, sessionVars, researchVars>>

\* the settings of cfg that yield an adapter whose prefix starts the target
Matching(cfg, target) ==
    {i \in DOMAIN cfg : /\ is_usable(cfg[i])
                        /\ startswith(target, prefix_setting(cfg[i]))}

\* the setting is disabled, has an empty prefix, or names no tool
Excluded(e) ==
    \/ ~e.enabled
    \/ e.prefix.some /\ strip(e.prefix.v) = ""
    \/ /\ strip(e.tool) = "" /\ strip(e.discover_tool) = ""
       /\ strip(e.list_tool) = "" /\ strip(e.read_tool) = ""

\* C39: get_source_adapter returns, among the enabled adapters whose
\* prefix is a prefix of the target, the one with the longest prefix; it
\* returns none when the target is empty or no enabled adapter matches; an
\* adapter that is disabled, has an empty prefix or has no tool is never
\* returned.
C39_LongestPrefixAdapter ==
    [][applied'.fn = "get_source_adapter" =>
          LET cfg == applied'.config
              target == applied'.target
              r == applied'.result
              m == Matching(cfg, target)
          IN  /\ (target = "" \/ m = {}) => ~r.found
              /\ (target # "" /\ m # {}) =>
                    /\ r.found
                    /\ \E i \in m :
                          /\ r.name = cfg[i].name
                          /\ r.prefix = prefix_setting(cfg[i])
                          /\ \A j \in m : Len(prefix_setting(cfg[j]))
                                            <= Len(r.prefix)
              /\ \A i \in DOMAIN cfg :
                    Excluded(cfg[i]) => ~(r.found /\ r.name = cfg[i].name)]_vars

\* the shorter prefix comes first in the configuration, both prefixes start
\* the target, and the adapter with the longer one is returned
C39_Witness ==
    /\ applied.fn = "get_source_adapter"
    /\ applied.target = "local://docs/x1"
    /\ Len(applied.config) = 2
    /\ applied.config[1].name = "local"
    /\ applied.config[2].name = "docs"
    /\ applied.result.found
    /\ applied.result.name = "docs"
(***************************************************************************)
(* fetch_source_via_adapter (src/src/asky/research/adapters.py).  The      *)
(* custom tool is the environment: its result is an input, a dictionary    *)
(* with an error text (empty when absent) and a stdout text (None when     *)
(* absent).                                                                *)
(***************************************************************************)
PayloadText == "{\"content\": \"body\", \"links\": [\"l1\", \" \", \"l2\", \"l3\"]}"
ErrorPayloadText == "{\"error\": \"denied\"}"

ToolResult(error, stdout) == [error |-> error, stdout |-> stdout]
ToolResults ==
    {ToolResult("tool failed", None), ToolResult("", None)}
    \cup {ToolResult("", Some(t)) :
             t \in {"", "  ", "oops", "[1]", "{}", PayloadText,
                    ErrorPayloadText}}

\* the max_links argument: absent (None) or an integer
NoLimit == [given |-> FALSE, n |-> 0]
Limit(n) == [given |-> TRUE, n |-> n]
AdapterMaxLinks == {NoLimit, Limit(0), Limit(2)}
AdapterQueries == {None, Some(""), Some("q")}
Operations == {"discover", "read", "list"}

\* a payload: absent keys are the empty text and the empty list
Payload(error, title, content, links) ==
    [error |-> error, title |-> title, content |-> content, links |-> links]

\* the object json.loads returns for the object texts of the model
decoded_object(text) ==
    CASE text = PayloadText ->
             Payload("", "", "body", <<"l1", " ", "l2", "l3">>)
      [] text = ErrorPayloadText -> Payload("denied", "", "", <<>>)
      [] OTHER -> Payload("", "", "", <<>>)

\* _parse_adapter_stdout(stdout)
_parse_adapter_stdout(stdout) ==
    IF strip(stdout) = ""
    THEN Payload("Adapter tool returned empty stdout.", "", "", <<>>)
    ELSE IF json_loads(stdout) = "JSONDecodeError"
    THEN Payload("Adapter tool returned invalid JSON", "", "", <<>>)
    ELSE IF json_loads(stdout) # "object"
    THEN Payload("Adapter tool JSON output must be an object.", "", "", <<>>)
    ELSE decoded_object(stdout)

\* _normalize_links for a list of texts: the stripped non-empty items, the
\* loop left once max_links of them are kept
RECURSIVE _normalize_links(_, _, _)
_normalize_links(raw_links, max_links, links) ==
    IF raw_links = <<>> THEN links
    ELSE LET text == strip(Head(raw_links))
             kept == IF text # ""
                     THEN Append(links, [text |-> text, href |-> text])
                     ELSE links
         IN  IF Len(kept) >= max_links THEN kept
             ELSE _normalize_links(Tail(raw_links), max_links, kept)

\* the dictionary fetch_source_via_adapter returns, or None
FetchResult(content, title, links, error) ==
    [none |-> FALSE, content |-> content, title |-> title, links |-> links,
     error |-> error]
NoFetchResult ==
    [none |-> TRUE, content |-> "", title |-> "", links |-> <<>>,
     error |-> ""]

\* _normalize_adapter_payload(payload, target, max_links)
_normalize_adapter_payload(payload, target, max_links) ==
    IF payload.error # ""
    THEN FetchResult("", target, <<>>, payload.error)
    ELSE FetchResult(payload.content, or_else(payload.title, target),
                     _normalize_links(payload.links, max_links, <<>>), "")

\* max_links if it is a positive integer, else the default
link_limit(max_links) ==
    IF max_links.given /\ max_links.n > 0 THEN max_links.n
    ELSE DEFAULT_ADAPTER_MAX_LINKS

\* the discover tool whatever the operation
tool_name_discover(adapter, operation) == adapter.discover_tool
\* adapter.read_tool if operation == "read" else adapter.discover_tool
tool_name(adapter, operation) ==
    IF operation = "read" THEN adapter.read_tool ELSE adapter.discover_tool

\* tool_args: query only when it is truthy
tool_args(target, query, max_links, operation) ==
    [target |-> target, max_links |-> link_limit(max_links),
     operation |-> operation,
     query |-> IF query.some /\ query.v # "" THEN query ELSE None]

\* fetch_source_via_adapter(target, query, max_links, operation) under the
\* configuration cfg, the custom tool answering with tool_result: the
\* calls of _execute_custom_tool made and the value returned
fetch_source_via_adapter(cfg, target, query, max_links, operation, tool_result) ==
    LET adapter == get_source_adapter(cfg, target)
        call == [name |-> tool_name(adapter, operation),
                 args |-> tool_args(target, query, max_links, operation)]
    IN  IF ~adapter.found
        THEN [tool_calls |-> <<>>, result |-> NoFetchResult]
        ELSE IF tool_result.error # ""
        THEN [tool_calls |-> <<call>>,
              result |-> FetchResult("", target, <<>>, tool_result.error)]
        ELSE [tool_calls |-> <<call>>,
              result |-> _normalize_adapter_payload(
                             _parse_adapter_stdout(tool_result.stdout.v),
                             target, link_limit(max_links))]

\* one call of fetch_source_via_adapter
FetchSourceViaAdapter(cfg, target, query, max_links, operation, tool_result) ==
    /\ applied = NoApplication
    /\ LET f == fetch_source_via_adapter(cfg, target, query, max_links,
                                         operation, tool_result)
       IN  applied' = [fn |-> "fetch_source_via_adapter", config |-> cfg,
                       target |-> target, query |-> query,
                       max_links |-> max_links, operation |-> operation,
                       tool_result |-> tool_result,
                       tool_calls |-> f.tool_calls, result |-> f.result]
    /\ UNCHANGED <<engineVars, httpVars, sessionVars, researchVars>>

\* a function is applied when none is on record, to inputs of the model
AdaptersNext ==
    \/ /\ PureIdle
       /\ \E cfg \in AdapterConfigs, target \in AdapterTargets :
              GetSourceAdapter(cfg, target)
    \/ /\ PureIdle
       /\ \E cfg \in AdapterConfigs, target \in AdapterTargets,
              query \in AdapterQueries, max_links \in AdapterMaxLinks,
              operation \in Operations, tool_result \in ToolResults :
              FetchSourceViaAdapter(cfg, target, query, max_links, operation,
                                    tool_result)
    \/ Forget

SpecAdapters == FunctionsInit /\ [][AdaptersNext]_vars

\* the tool result is one of the failures: a tool error, empty or
\* invalid-JSON stdout, or JSON that is not an object
ToolFailed(tool_result) ==
    \/ tool_result.error # ""
    \/ ~tool_result.stdout.some
    \/ strip(tool_result.stdout.v) = ""
    \/ json_loads(tool_result.stdout.v) # "object"

\* C40: fetch_source_via_adapter invokes exactly one custom tool, the
\* adapter's read tool when operation is "read" and its discover tool
\* otherwise, with the target, max_links (50 when none is given) and the
\* operation, plus the query only when one is given; a tool error, empty
\* or invalid-JSON stdout or non-object JSON yields a result with a
\* non-empty error, empty content and no links; with no matching adapter
\* it returns none and invokes no tool.
C40_FetchInvokesOneTool ==
    [][applied'.fn = "fetch_source_via_adapter" =>
          LET a == applied'
              adapter == get_source_adapter(a.config, a.target)
          IN  /\ ~adapter.found =>
                    a.result.none /\ a.tool_calls = <<>>
              /\ adapter.found =>
                    /\ ~a.result.none
                    /\ Len(a.tool_calls) = 1
                    /\ a.tool_calls[1].name =
                          (IF a.operation = "read" THEN adapter.read_tool
                           ELSE adapter.discover_tool)
                    /\ a.tool_calls[1].args.target = a.target
                    /\ a.tool_calls[1].args.operation = a.operation
                    /\ ~a.max_links.given =>
                          a.tool_calls[1].args.max_links = 50
                    /\ (a.max_links.given /\ a.max_links.n > 0) =>
                          a.tool_calls[1].args.max_links = a.max_links.n
                    /\ a.tool_calls[1].args.query.some =>
                          a.tool_calls[1].args.query = a.query
                    /\ (a.query.some /\ a.query.v # "") =>
                          a.tool_calls[1].args.query = a.query
                    /\ ToolFailed(a.tool_result) =>
                          /\ a.result.error # ""
                          /\ a.result.content = ""
                          /\ a.result.links = <<>>]_vars

\* a read with a query and no max_links, answered with invalid JSON: the
\* read tool is called once and the result carries the error
C40_Witness ==
    /\ applied.fn = "fetch_source_via_adapter"
    /\ applied.operation = "read"
    /\ applied.query = Some("q")
    /\ applied.max_links = NoLimit
    /\ applied.tool_result = ToolResult("", Some("oops"))
    /\ applied.tool_calls =
          <<[name |-> "docs_read",
             args |-> [target |-> "local://docs/x1", max_links |-> 50,
                       operation |-> "read", query |-> Some("q")]]>>
    /\ applied.result.error # ""

====
